---- MODULE Spec2Model ----
(***************************************************************************)
(* A model of the WebGL vector-tile rendering core of ol3 (hafenr fork):   *)
(*   - the geometry replays (PolygonReplay, LineStringReplay, PointReplay) *)
(*   - ol.render.webgl.ReplayGroup (bulk replay and hit detection)         *)
(*   - ol.renderer.webgl.VectorTileLayer (prepareFrame / composeFrame)     *)
(* Floats are kept as rationals <<numerator, denominator>>; arrays are     *)
(* sequences (1-based, the JavaScript index i is position i + 1).          *)
(***************************************************************************)
EXTENDS Integers, Sequences, FiniteSets, TLC

(***************************************************************************)
(* Bounds of the model.                                                    *)
(***************************************************************************)
\* features appended to the replay group under test in SpecReplay
MaxFeatures == 2
\* layer revisions (layer.changed() calls) explored in Spec
MaxRevision == 1
\* the largest resolution of a tile grid explored in SpecZoom
MaxResolution == 5

(***************************************************************************)
(* Small helpers.                                                          *)
(***************************************************************************)
Range(s) == {s[i] : i \in 1..Len(s)}

RECURSIVE Reverse(_)
Reverse(s) == IF s = <<>> THEN <<>> ELSE Append(Reverse(Tail(s)), Head(s))

RECURSIVE Concat(_)
\* the concatenation of a sequence of sequences
Concat(ss) == IF ss = <<>> THEN <<>> ELSE Head(ss) \o Concat(Tail(ss))

IsPrefix(s, t) == Len(s) <= Len(t) /\ SubSeq(t, 1, Len(s)) = s

(***************************************************************************)
(* Colours and styles.  A colour is <<r, g, b, a>> with r, g, b in 0..255. *)
(* A null colour / null style is the empty tuple.                          *)
(***************************************************************************)
NullColor == <<>>
Red == <<255, 0, 0, 1>>
Green == <<0, 255, 0, 1>>
Blue == <<0, 0, 255, 1>>
\* a half-bright, fully transparent colour
Olive == <<128, 128, 0, 0>>
\* opaque black
Black == <<0, 0, 0, 1>>

\* ol.style.Fill / ol.style.Stroke: isNull means the style object is absent,
\* color is what getColor() returns (NullColor when the colour is null).
NoStyle == [isNull |-> TRUE, color |-> NullColor]
ColorStyle(c) == [isNull |-> FALSE, color |-> c]

\* ol.style.Style restricted to what the replays read
Style(fill, stroke) == [fill |-> fill, stroke |-> stroke]

\* normalizeColor_ handing the channels on as they are
NormalizeColorRaw(color) == [i \in 1..4 |-> <<color[i], 1>>]

\* c / 255.0 for the colour channels, the alpha channel unchanged; a channel
\* is the fraction <<numerator, denominator>>
NormalizeColor(color) ==
  [i \in 1..4 |-> IF (i - 1) # 3 THEN <<color[i], 255>> ELSE <<color[i], 1>>]

\* the literal [0.0, 0.0, 0.0, 1.0]
DefaultColorNormalized == << <<0, 1>>, <<0, 1>>, <<0, 1>>, <<1, 1>> >>

(***************************************************************************)
(* Geometries and features.  A coordinate is <<x, y>>.                     *)
(*   Point: a coordinate          LineString: a sequence of coordinates    *)
(*   Polygon: a sequence of closed rings (outer ring first)                *)
(*   MultiPolygon: a sequence of polygons                                  *)
(* A feature carries its uid, its geometry, the style set on the feature   *)
(* itself (getStyle(), NoStyle when null, else its fill), its own style    *)
(* function ("absent" or the styles it returns) and the styles the layer's *)
(* style function returns for it.  No styles is the empty sequence.        *)
(***************************************************************************)
Feature(uid, type, coords, ownFill, hasFn, fnStyles, layerStyles) ==
  [uid |-> uid, type |-> type, coords |-> coords, ownFill |-> ownFill,
   hasFn |-> hasFn, fnStyles |-> fnStyles, layerStyles |-> layerStyles]

SquareRing == << <<0, 0>>, <<2, 0>>, <<2, 2>>, <<0, 2>>, <<0, 0>> >>
TriRingA == << <<2, 2>>, <<4, 2>>, <<4, 4>>, <<2, 2>> >>
TriRingB == << <<0, 3>>, <<1, 3>>, <<0, 4>>, <<0, 3>> >>
TriRingC == << <<3, 0>>, <<4, 0>>, <<4, 1>>, <<3, 0>> >>

\* a filled square, a stroke-only triangle, a filled multi-polygon, a point,
\* a line, and a point for which no style function yields a style
PolyA == Feature(1, "Polygon", <<SquareRing>>, NoStyle, FALSE, <<>>,
                 <<Style(ColorStyle(Red), NoStyle)>>)
PolyS == Feature(2, "Polygon", <<TriRingA>>, NoStyle, FALSE, <<>>,
                 <<Style(NoStyle, ColorStyle(Blue))>>)
MPoly == Feature(3, "MultiPolygon", << <<TriRingB>>, <<TriRingC>> >>, NoStyle,
                 FALSE, <<>>, <<Style(ColorStyle(Green), NoStyle)>>)
Pt == Feature(4, "Point", <<1, 1>>, NoStyle, FALSE, <<>>,
              <<Style(ColorStyle(Green), NoStyle)>>)
Line == Feature(5, "LineString", << <<0, 0>>, <<3, 3>> >>, NoStyle, FALSE,
                <<>>, <<Style(NoStyle, ColorStyle(Blue))>>)
Bare == Feature(6, "Point", <<3, 1>>, NoStyle, TRUE, <<>>,
                <<Style(ColorStyle(Red), NoStyle)>>)

Catalog == {PolyA, PolyS, MPoly, Pt, Line, Bare}
Uids == {f.uid : f \in Catalog}

\* 2^16; every index this model can build is below 2^32
IndexLimit16 == 65536

\* a ring of IndexLimit16 + 1 distinct points on a parabola (a convex
\* polygon), closed
BigRing ==
  [i \in 1..(IndexLimit16 + 2) |->
     IF i = IndexLimit16 + 2 THEN <<0, 0>>
     ELSE <<i - 1, (i - 1) * (IndexLimit16 + 2 - i)>>]

\* a filled triangle, a filled polygon whose only ring has two points, and a
\* filled polygon with more vertices than 16-bit indices address
PolyB == Feature(7, "Polygon", <<TriRingC>>, NoStyle, FALSE, <<>>,
                 <<Style(ColorStyle(Green), NoStyle)>>)
PolyD == Feature(8, "Polygon", << << <<1, 1>>, <<3, 1>> >> >>, NoStyle, FALSE,
                 <<>>, <<Style(ColorStyle(Red), NoStyle)>>)
BigPoly == Feature(9, "Polygon", <<BigRing>>, NoStyle, FALSE, <<>>,
                   <<Style(ColorStyle(Red), NoStyle)>>)

\* a point whose own style function yields a blue fill where the layer's
\* yields a red one
OwnPt == Feature(10, "Point", <<2, 3>>, NoStyle, TRUE,
                 <<Style(ColorStyle(Blue), NoStyle)>>,
                 <<Style(ColorStyle(Red), NoStyle)>>)

\* the features of SpecBatch
BatchCatalog == {PolyA, PolyB, PolyD, BigPoly, Pt, Bare, OwnPt}

\* a multi-point of two points, a point carrying a style of its own, a path
\* of one coordinate and a path of three
MPt == Feature(11, "MultiPoint", << <<0, 0>>, <<2, 2>> >>, NoStyle, FALSE, <<>>,
               <<Style(ColorStyle(Green), NoStyle)>>)
StyledPt == Feature(12, "Point", <<3, 3>>, ColorStyle(Blue), FALSE, <<>>,
                    <<Style(ColorStyle(Green), NoStyle)>>)
Line1 == Feature(13, "LineString", << <<1, 1>> >>, NoStyle, FALSE, <<>>,
                 <<Style(NoStyle, ColorStyle(Blue))>>)
Line3 == Feature(14, "LineString", << <<0, 0>>, <<1, 2>>, <<3, 2>> >>, NoStyle,
                 FALSE, <<>>, <<Style(NoStyle, ColorStyle(Blue))>>)
\* a triangle carrying a style of its own
StyledPoly == Feature(15, "Polygon", <<TriRingA>>, ColorStyle(Olive), FALSE, <<>>,
                      <<Style(ColorStyle(Green), NoStyle)>>)

\* the geometries of SpecDraw
DrawCatalog == {Pt, StyledPt, MPt, Line1, Line3, PolyA, MPoly, StyledPoly}

\* the features of SpecHit: an opaque red square, an opaque black triangle,
\* a fully transparent square and a line
PolyBlack == Feature(16, "Polygon", <<TriRingA>>, NoStyle, FALSE, <<>>,
                     <<Style(ColorStyle(Black), NoStyle)>>)
PolyClear == Feature(17, "Polygon", <<SquareRing>>, NoStyle, FALSE, <<>>,
                     <<Style(ColorStyle(Olive), NoStyle)>>)
HitCatalog == {PolyA, PolyBlack, PolyClear, Line}
HitUids == {f.uid : f \in HitCatalog}

FeatureByUid(u) ==
  CHOOSE f \in Catalog \cup BatchCatalog \cup DrawCatalog \cup HitCatalog : f.uid = u

\* every coordinate of a feature's geometry
AllCoords(f) ==
  CASE f.type = "Point" -> {f.coords}
    [] f.type \in {"LineString", "MultiPoint"} -> Range(f.coords)
    [] f.type = "Polygon" -> UNION {Range(f.coords[i]) : i \in 1..Len(f.coords)}
    [] f.type = "MultiPolygon" ->
         UNION {Range(f.coords[i][j]) :
                  i \in 1..Len(f.coords), j \in {1}}
    [] OTHER -> {}

Min(S) == CHOOSE m \in S : \A n \in S : m <= n
Max(S) == CHOOSE m \in S : \A n \in S : m >= n

\* geometry.getExtent(): <<minX, minY, maxX, maxY>>
GeometryExtent(f) ==
  LET cs == AllCoords(f) IN
  << Min({c[1] : c \in cs}), Min({c[2] : c \in cs}),
     Max({c[1] : c \in cs}), Max({c[2] : c \in cs}) >>

\* ol.extent.intersects
ExtentIntersects(e1, e2) ==
  e1[1] <= e2[3] /\ e1[3] >= e2[1] /\ e1[2] <= e2[4] /\ e1[4] >= e2[2]

\* ol.extent.buffer(ol.extent.createOrUpdateFromCoordinate(c), value)
ExtentAround(c, value) == <<c[1] - value, c[2] - value, c[1] + value, c[2] + value>>

(***************************************************************************)
(* The triangulator ol.ext.earcut(coordinates, true): the vertices are the *)
(* points of every ring (the closing point dropped), the indices a fan     *)
(* over the outer ring, none when the ring has fewer than 3 points.        *)
(***************************************************************************)
OpenRing(ring) ==
  IF Len(ring) >= 2 /\ ring[1] = ring[Len(ring)]
  THEN SubSeq(ring, 1, Len(ring) - 1)
  ELSE ring

Earcut(coordinates) ==
  LET outer == IF coordinates = <<>> THEN <<>> ELSE OpenRing(coordinates[1])
      n == Len(outer)
  IN [vertices |-> Concat([i \in 1..Len(coordinates) |-> OpenRing(coordinates[i])]),
      indices |-> IF n < 3 THEN <<>>
                  ELSE <<0, 1, 2>> \o
                       [k \in 1..(3 * (n - 3)) |->
                          IF (k - 1) % 3 = 0 THEN 0
                          ELSE ((k - 1) \div 3) + ((k - 1) % 3) + 1]]

(***************************************************************************)
(* ol.webgl.Buffer: null, or a buffer created over an array of n entries.  *)
(* The rendering context: whether 32-bit element indices are supported     *)
(* (hasOESElementIndexUint) and whether goog.asserts are enabled           *)
(* (goog.DEBUG builds) or compiled away.                                   *)
(***************************************************************************)
NullBuffer == [isNull |-> TRUE, n |-> 0]
Buffer(arr) == [isNull |-> FALSE, n |-> Len(arr)]


(***************************************************************************)
(* ol.render.webgl.LineStringReplay                                        *)
(***************************************************************************)
\* ol.extent.getCenter of an extent <<minX, minY, maxX, maxY>>
GetCenter(extent) ==
  <<(extent[1] + extent[3]) \div 2, (extent[2] + extent[4]) \div 2>>

\* the extent every replay of the model is created with (maxExtent)
ReplayExtent == <<0, 0, 4, 4>>

NewLineStringReplay ==
  [origin_ |-> GetCenter(ReplayExtent), strokeColor_ |-> NullColor, vertices_ |-> <<>>, verticesBuffer_ |-> NullBuffer,
   defaultLocations_ |-> FALSE, typeError |-> FALSE]

\* populateVerticesArray_ appending one vertex per coordinate (a line strip)
LinePopulateVerticesArrayStrip(r, coordinates) ==
  [r EXCEPT !.vertices_ =
     @ \o [i \in 1..Len(coordinates) |->
             [x |-> coordinates[i][1], y |-> coordinates[i][2],
              c |-> r.strokeColor_]]]

\* two vertices per segment, coloured with the replay's stroke colour; reading
\* a channel of a null stroke colour is a TypeError (recorded in typeError)
LinePopulateVerticesArray(r, coordinates) ==
  LET segs == IF Len(coordinates) >= 1 THEN Len(coordinates) - 1 ELSE 0
      V(p) == [x |-> p[1], y |-> p[2], c |-> r.strokeColor_]
  IN IF segs > 0 /\ r.strokeColor_ = NullColor
     THEN [r EXCEPT !.typeError = TRUE]
     ELSE [r EXCEPT !.vertices_ =
             @ \o Concat([i \in 1..segs |-> <<V(coordinates[i]), V(coordinates[i + 1])>>])]

LineDrawLineString(r, f) == LinePopulateVerticesArray(r, f.coords)

LineDrawLinearRing(r, ring) == LinePopulateVerticesArray(r, ring)

LineSetFillStrokeStyle(r, fillStyle, strokeStyle) ==
  IF ~strokeStyle.isNull
  THEN [r EXCEPT !.strokeColor_ =
          IF strokeStyle.color # NullColor
          THEN NormalizeColor(strokeStyle.color)
          ELSE DefaultColorNormalized]
  ELSE [r EXCEPT !.strokeColor_ = NullColor]

LineFinish(r) == [r EXCEPT !.verticesBuffer_ = Buffer(r.vertices_)]

(***************************************************************************)
(* ol.render.webgl.PolygonReplay (the second, effective definition)        *)
(***************************************************************************)
NewPolygonReplay ==
  [origin_ |-> GetCenter(ReplayExtent), fillColor_ |-> NullColor, hasLineStringReplayColor_ |-> FALSE,
   lineStringReplay_ |-> NewLineStringReplay,
   indices_ |-> <<>>, indicesBuffer_ |-> NullBuffer,
   vertices_ |-> <<>>, verticesBuffer_ |-> NullBuffer,
   startIndices_ |-> <<>>, endIndices_ |-> <<>>, features_ |-> <<>>,
   defaultLocations_ |-> FALSE]

\* populateVerticesArray_ shifting the indices by the length of the float
\* array instead of by the number of vertices
PolyPopulateStepCountingFloats(r, vertices, indices, offset, fillColor) ==
  [r EXCEPT
     !.indices_ = @ \o [i \in 1..Len(indices) |-> indices[i] + 6 * offset],
     !.vertices_ = @ \o [i \in 1..Len(vertices) |->
                           [x |-> vertices[i][1], y |-> vertices[i][2],
                            c |-> fillColor]]]

\* vertices_ holds one record per vertex (6 floats in the code), so the
\* code's vertices_.length / 6 is Len(vertices_) here
PolyPopulateStep(r, vertices, indices, offset, fillColor) ==
  [r EXCEPT
     !.indices_ = @ \o [i \in 1..Len(indices) |-> indices[i] + offset],
     !.vertices_ = @ \o [i \in 1..Len(vertices) |->
                           [x |-> vertices[i][1], y |-> vertices[i][2],
                            c |-> fillColor]]]

\* populateVerticesArray_ numbering every polygon's vertices from zero
PolyPopulateTrianglesNoOffset(r, t, fillColor) ==
  PolyPopulateStep(r, t.vertices, t.indices, 0, fillColor)

\* populateVerticesArray_ with the triangulation t of the coordinates
PolyPopulateTriangles(r, t, fillColor) ==
  PolyPopulateStep(r, t.vertices, t.indices, Len(r.vertices_), fillColor)

PolyPopulateVerticesArray(r, coordinates, fillColor) ==
  PolyPopulateTriangles(r, Earcut(coordinates), fillColor)

RECURSIVE PolyPopulateAll(_, _, _)
PolyPopulateAll(r, coordinatess, fillColor) ==
  IF coordinatess = <<>> THEN r
  ELSE PolyPopulateAll(PolyPopulateVerticesArray(r, Head(coordinatess), fillColor),
                       Tail(coordinatess), fillColor)

PolyDrawMultiPolygon(r, f) ==
  IF r.fillColor_ = NullColor THEN r
  ELSE PolyPopulateAll(
         [r EXCEPT !.startIndices_ = Append(@, Len(r.indices_)),
                   !.features_ = Append(@, f.uid)],
         f.coords, r.fillColor_)

RECURSIVE LineDrawRings(_, _)
LineDrawRings(lr, rings) ==
  IF rings = <<>> THEN lr
  ELSE LineDrawRings(LineDrawLinearRing(lr, Head(rings)), Tail(rings))

\* this.endIndices_.push(this.indices_.length)
PolyEndFeature(r) == [r EXCEPT !.endIndices_ = Append(@, Len(r.indices_))]

PolyDrawPolygon(r, f) ==
  LET fillColor == IF ~f.ownFill.isNull
                   THEN NormalizeColor(f.ownFill.color)
                   ELSE r.fillColor_
      body == IF fillColor # NullColor
              THEN PolyEndFeature(
                     PolyPopulateVerticesArray(
                       [r EXCEPT !.startIndices_ = Append(@, Len(r.indices_)),
                                 !.features_ = Append(@, f.uid)],
                       f.coords, fillColor))
              ELSE r
  IN IF body.hasLineStringReplayColor_
     THEN [body EXCEPT !.lineStringReplay_ = LineDrawRings(@, f.coords)]
     ELSE body

\* setFillStrokeStyle with an outline flag that follows the latest call
PolySetFillStrokeStyleResetting(r, fillStyle, strokeStyle) ==
  LET r1 == IF ~fillStyle.isNull
            THEN [r EXCEPT !.fillColor_ =
                    IF fillStyle.color # NullColor
                    THEN NormalizeColor(fillStyle.color)
                    ELSE DefaultColorNormalized]
            ELSE [r EXCEPT !.fillColor_ = NullColor]
  IN IF ~strokeStyle.isNull
     THEN [r1 EXCEPT !.lineStringReplay_ =
                        LineSetFillStrokeStyle(@, fillStyle, strokeStyle),
                     !.hasLineStringReplayColor_ = TRUE]
     ELSE [r1 EXCEPT !.hasLineStringReplayColor_ = FALSE]

\* setFillStrokeStyle handing every stroke style, null too, to the nested
\* line string replay
PolySetFillStrokeStyleForwarding(r, fillStyle, strokeStyle) ==
  LET r1 == IF ~fillStyle.isNull
            THEN [r EXCEPT !.fillColor_ =
                    IF fillStyle.color # NullColor
                    THEN NormalizeColor(fillStyle.color)
                    ELSE DefaultColorNormalized]
            ELSE [r EXCEPT !.fillColor_ = NullColor]
  IN [r1 EXCEPT !.lineStringReplay_ =
                   LineSetFillStrokeStyle(@, fillStyle, strokeStyle),
                !.hasLineStringReplayColor_ = @ \/ ~strokeStyle.isNull]

\* the assertion of setFillStrokeStyle is made where the method is called
\* (SetFillStrokeStyle of SpecDraw); the renderer never passes two nulls
PolySetFillStrokeStyle(r, fillStyle, strokeStyle) ==
  LET r1 == IF ~fillStyle.isNull
            THEN [r EXCEPT !.fillColor_ =
                    IF fillStyle.color # NullColor
                    THEN NormalizeColor(fillStyle.color)
                    ELSE DefaultColorNormalized]
            ELSE [r EXCEPT !.fillColor_ = NullColor]
  IN IF ~strokeStyle.isNull
     THEN [r1 EXCEPT !.lineStringReplay_ =
                        LineSetFillStrokeStyle(@, fillStyle, strokeStyle),
                     !.hasLineStringReplayColor_ = TRUE]
     ELSE r1

\* the assertion on the last element index: indices[indices.length - 1] is
\* undefined for an empty list, and undefined < 2^bits is false
PolyFinishAssertHolds(r, ctx) ==
  /\ r.indices_ # <<>>
  /\ (ctx.hasOES \/ r.indices_[Len(r.indices_)] < IndexLimit16)

\* finish: [r: the replay afterwards, threw: an assertion error was raised]
PolyFinish(r, ctx) ==
  LET r1 == [r EXCEPT !.verticesBuffer_ = Buffer(r.vertices_)]
  IN IF ctx.asserts /\ ~PolyFinishAssertHolds(r1, ctx)
     THEN [r |-> r1, threw |-> TRUE]
     ELSE [r |-> [r1 EXCEPT !.indicesBuffer_ = Buffer(r1.indices_),
                            !.lineStringReplay_ = LineFinish(@)],
           threw |-> FALSE]

(***************************************************************************)
(* ol.render.webgl.PointReplay                                             *)
(***************************************************************************)
PointSize == 10

NewPointReplay ==
  [origin_ |-> GetCenter(ReplayExtent), pointSize_ |-> PointSize, fillColor_ |-> NullColor,
   vertexAttributes_ |-> <<>>, vertexAttributesBuffer_ |-> NullBuffer,
   features_ |-> <<>>, defaultLocations_ |-> FALSE]

PointPopulateVerticesArray(r, coordinate, fillColor, pointSize) ==
  [r EXCEPT !.vertexAttributes_ =
     Append(@, [x |-> coordinate[1], y |-> coordinate[2], c |-> fillColor,
                size |-> pointSize])]

PointGetFillColorForFeature(r, f) ==
  IF ~f.ownFill.isNull THEN NormalizeColor(f.ownFill.color) ELSE r.fillColor_

PointDrawPoint(r, f) ==
  LET fillColor == PointGetFillColorForFeature(r, f) IN
  IF fillColor = NullColor THEN r
  ELSE PointPopulateVerticesArray([r EXCEPT !.features_ = Append(@, f.uid)],
                                  f.coords, fillColor, r.pointSize_)

RECURSIVE PointPopulateAll(_, _, _)
PointPopulateAll(r, coordinates, fillColor) ==
  IF coordinates = <<>> THEN r
  ELSE PointPopulateAll(
         PointPopulateVerticesArray(r, Head(coordinates), fillColor, r.pointSize_),
         Tail(coordinates), fillColor)

\* drawMultiPoint: features_ is not touched
PointDrawMultiPoint(r, f) ==
  LET fillColor == PointGetFillColorForFeature(r, f) IN
  IF fillColor = NullColor THEN r
  ELSE PointPopulateAll(r, f.coords, fillColor)

PointSetFillStrokeStyle(r, fillStyle, strokeStyle) ==
  IF ~fillStyle.isNull
  THEN [r EXCEPT !.fillColor_ =
          IF fillStyle.color # NullColor
          THEN NormalizeColor(fillStyle.color)
          ELSE DefaultColorNormalized]
  ELSE [r EXCEPT !.fillColor_ = NullColor]

PointFinish(r) == [r EXCEPT !.vertexAttributesBuffer_ = Buffer(r.vertexAttributes_)]


(***************************************************************************)
(* GL: the state the replays set and read.  blend is the blend function    *)
(* ("default": separate source-alpha blending, "additive": ONE, ONE),      *)
(* arrays the enabled vertex attribute arrays, pixel the single pixel of   *)
(* the 1x1 hit-detection target (is any colour channel / the alpha channel *)
(* above zero).  A call log entry is a record Call(op, k, a, b, f).        *)
(***************************************************************************)
ZeroPixel == [rgb |-> FALSE, a |-> FALSE]
InitGL == [blend |-> "default", arrays |-> {}, pixel |-> ZeroPixel]

Call(op, k, a, b, f) == [op |-> op, k |-> k, a |-> a, b |-> b, f |-> f]

\* twice the signed area of the triangle a, b, c
Orient(a, b, c) == (b[1] - a[1]) * (c[2] - a[2]) - (b[2] - a[2]) * (c[1] - a[1])

\* the rasteriser: triangle a, b, c covers the point p (edges included)
InTriangle(p, a, b, c) ==
  LET d1 == Orient(a, b, p)
      d2 == Orient(b, c, p)
      d3 == Orient(c, a, p)
  IN ~((d1 < 0 \/ d2 < 0 \/ d3 < 0) /\ (d1 > 0 \/ d2 > 0 \/ d3 > 0))

\* what a fragment of colour c adds to a pixel under additive blending
Fragment(c) == [rgb |-> c[1][1] > 0 \/ c[2][1] > 0 \/ c[3][1] > 0, a |-> c[4][1] > 0]

\* gl.drawElements(TRIANGLES, numItems, type, start * elementSize) on the
\* 1x1 target centred on coordinate: the pixel afterwards
DrawElementsPixel(pixel, r, start, numItems, coordinate) ==
  LET tris == {j \in 0..((numItems \div 3) - 1) :
                 /\ start + 3 * j + 3 <= Len(r.indices_)
                 /\ LET v(k) == r.vertices_[r.indices_[start + 3 * j + k] + 1]
                    IN InTriangle(coordinate, <<v(1).x, v(1).y>>,
                                  <<v(2).x, v(2).y>>, <<v(3).x, v(3).y>>)}
      frag(j) == Fragment(r.vertices_[r.indices_[start + 3 * j + 1] + 1].c)
  IN [rgb |-> pixel.rgb \/ \E j \in tris : frag(j).rgb,
      a |-> pixel.a \/ \E j \in tris : frag(j).a]

(***************************************************************************)
(* The parameters of a replay.  mode "bulk": no feature callback;          *)
(* "forEach": the callback forEachFeatureAtCoordinate passes down, which   *)
(* reads the pixel and calls the caller's callback (truthy for the uids in *)
(* accept); "has": the callback of hasFeatureAtCoordinate.  hitExtent is   *)
(* <<>> when undefined.                                                    *)
(***************************************************************************)
Params(mode, coordinate, skipped, accept, hitExtent) ==
  [mode |-> mode, coordinate |-> coordinate, skipped |-> skipped,
   accept |-> accept, hitExtent |-> hitExtent]

\* the feature callback: [calls, result] with result 0 when it is falsy
FeatureCallback(P, pixel, uid) ==
  IF P.mode = "forEach"
  THEN IF pixel.rgb
       THEN [calls |-> <<Call("featureCallback", "", 0, 0, uid),
                         Call("callback", "", 0, 0, uid)>>,
             result |-> IF uid \in P.accept THEN uid ELSE 0]
       ELSE [calls |-> <<Call("featureCallback", "", 0, 0, uid)>>, result |-> 0]
  ELSE [calls |-> <<Call("featureCallback", "", 0, 0, uid)>>,
        result |-> IF pixel.a THEN 1 ELSE 0]

\* the outcome of a replay: the replay and GL afterwards, the calls issued,
\* the value returned (0: undefined or falsy), whether an error was raised
Outcome(r, gl, calls, result, threw) ==
  [r |-> r, gl |-> gl, calls |-> calls, result |-> result, threw |-> threw]

ElementSize(ctx) == IF ctx.hasOES THEN 4 ELSE 2

\* the three conditions under which hit detection probes a feature
Probed(P, uid) ==
  /\ uid \notin P.skipped
  /\ (P.hitExtent = <<>> \/ ExtentIntersects(P.hitExtent, GeometryExtent(FeatureByUid(uid))))

(***************************************************************************)
(* LineStringReplay.prototype.replay and drawReplay_                       *)
(***************************************************************************)
LineDrawReplay(r, P) ==
  IF P.skipped # {} THEN <<>>
  ELSE <<Call("lineWidth", "", 3, 0, 0),
         Call("drawArrays", "LINES", 0, Len(r.vertices_), 0),
         Call("lineWidth", "", 1, 0, 0)>>

\* a replay that populates its vertex array again on every call
LineReplayRepopulating(r, gl, ctx, P) ==
  IF r.verticesBuffer_.isNull
  THEN Outcome(r, gl, <<Call("unfinished", "LineString", 0, 0, 0)>>, 0, TRUE)
  ELSE Outcome([r EXCEPT !.defaultLocations_ = TRUE, !.vertices_ = @ \o @], gl,
               IF P.mode = "bulk" THEN LineDrawReplay(r, P) ELSE <<>>, 0, FALSE)

LineReplay(r, gl, ctx, P) ==
  IF r.verticesBuffer_.isNull
  THEN Outcome(r, gl, <<Call("unfinished", "LineString", 0, 0, 0)>>, 0, TRUE)
  ELSE Outcome([r EXCEPT !.defaultLocations_ = TRUE], gl,
               IF P.mode = "bulk" THEN LineDrawReplay(r, P) ELSE <<>>, 0, FALSE)

(***************************************************************************)
(* PolygonReplay.prototype.replay and drawReplay_                          *)
(***************************************************************************)
PolyDrawReplay(r, P) ==
  IF P.skipped # {} THEN <<>>
  ELSE <<Call("drawElements", "TRIANGLES", Len(r.indices_), 0, 0)>>

\* the hit-detection loop from featureIndex down to 0 (featureIndex is the
\* JavaScript index): [calls, result, pixel]
RECURSIVE PolyHitLoop(_, _, _, _, _, _)
PolyHitLoop(r, ctx, P, featureIndex, pixel, calls) ==
  IF featureIndex < 0 THEN [calls |-> calls, result |-> 0, pixel |-> pixel]
  ELSE
    LET uid == r.features_[featureIndex + 1] IN
    IF Probed(P, uid)
    THEN
      LET start == r.startIndices_[featureIndex + 1]
          hasEnd == featureIndex + 1 <= Len(r.endIndices_)
          numItems == IF hasEnd THEN r.endIndices_[featureIndex + 1] - start ELSE 0
          draws == hasEnd /\ numItems > 0
          pixel1 == IF draws
                    THEN DrawElementsPixel(ZeroPixel, r, start, numItems, P.coordinate)
                    ELSE ZeroPixel
          cb == FeatureCallback(P, pixel1, uid)
          calls1 == calls \o <<Call("clear", "", 0, 0, 0)>>
                      \o (IF draws
                          THEN <<Call("drawElements", "TRIANGLES", numItems,
                                      start * ElementSize(ctx), uid)>>
                          ELSE <<>>)
                      \o cb.calls
      IN IF cb.result # 0
         THEN [calls |-> calls1, result |-> cb.result, pixel |-> pixel1]
         ELSE PolyHitLoop(r, ctx, P, featureIndex - 1, pixel1, calls1)
    ELSE PolyHitLoop(r, ctx, P, featureIndex - 1, pixel, calls)

PolyReplay(r, gl, ctx, P) ==
  IF r.verticesBuffer_.isNull \/ r.indicesBuffer_.isNull
  THEN Outcome(r, gl, <<Call("unfinished", "Polygon", 0, 0, 0)>>, 0, TRUE)
  ELSE
    LET r1 == [r EXCEPT !.defaultLocations_ = TRUE]
        on == [gl EXCEPT !.arrays = @ \cup {"a_position", "a_color"}]
        off(g) == [g EXCEPT !.arrays = @ \ {"a_position", "a_color"}]
        \* the nested line replay, run only when a stroke colour was set
        outline(g, calls, result) ==
          IF r1.hasLineStringReplayColor_
          THEN LET o == LineReplay(r1.lineStringReplay_, g, ctx, P)
               IN Outcome([r1 EXCEPT !.lineStringReplay_ = o.r], o.gl,
                          calls \o o.calls, result, o.threw)
          ELSE Outcome(r1, g, calls, result, FALSE)
    IN IF P.mode = "bulk"
       THEN outline(off(on), PolyDrawReplay(r1, P), 0)
       ELSE
         LET additive == [on EXCEPT !.blend = "additive"]
             loop == PolyHitLoop(r1, ctx, P, Len(r1.startIndices_) - 1,
                                 gl.pixel, <<>>)
         IN IF loop.result # 0
            THEN Outcome(r1, [additive EXCEPT !.pixel = loop.pixel],
                         loop.calls, loop.result, FALSE)
            ELSE outline(off([additive EXCEPT !.blend = "default",
                                              !.pixel = loop.pixel]),
                         loop.calls, 0)

(***************************************************************************)
(* PointReplay.prototype.replay and drawReplay_                            *)
(***************************************************************************)
PointDrawReplay(r, P) ==
  IF P.skipped # {} THEN <<>>
  ELSE <<Call("drawArrays", "POINTS", 0, Len(r.features_), 0)>>

\* the index (JavaScript) of the last feature the hit-detection loop probes,
\* -1 when it probes none
RECURSIVE PointFirstProbed(_, _, _)
PointFirstProbed(r, P, featureIndex) ==
  IF featureIndex < 0 THEN -1
  ELSE IF Probed(P, r.features_[featureIndex + 1]) THEN featureIndex
  ELSE PointFirstProbed(r, P, featureIndex - 1)

\* In hit-detection mode the loop clears the target for the first feature it
\* probes and then evaluates "numItems > 0": numItems is not declared in
\* this function, so reading it raises a ReferenceError.
PointReplay(r, gl, ctx, P) ==
  IF r.vertexAttributesBuffer_.isNull
  THEN Outcome(r, gl, <<Call("unfinished", "Point", 0, 0, 0)>>, 0, TRUE)
  ELSE
    LET r1 == [r EXCEPT !.defaultLocations_ = TRUE]
        all == {"a_position", "a_color", "a_pointsize"}
        on == [gl EXCEPT !.arrays = @ \cup all]
        off(g) == [g EXCEPT !.arrays = @ \ all]
    IN IF P.mode = "bulk"
       THEN Outcome(r1, off(on), PointDrawReplay(r1, P), 0, FALSE)
       ELSE
         LET additive == [on EXCEPT !.blend = "additive"]
             first == PointFirstProbed(r1, P, Len(r1.features_) - 1)
         IN IF first >= 0
            THEN Outcome(r1, [additive EXCEPT !.pixel = ZeroPixel],
                         <<Call("clear", "", 0, 0, 0),
                           Call("ReferenceError", "numItems", 0, 0,
                                r1.features_[first + 1])>>,
                         0, TRUE)
            ELSE Outcome(r1, off([additive EXCEPT !.blend = "default"]),
                         <<>>, 0, FALSE)


(***************************************************************************)
(* ol.render.webgl.ReplayGroup.  replays_ maps the replay types that have  *)
(* a replay to it, keys_ lists them in insertion order (the order of a     *)
(* for-in loop), renderBuffer_ is <<>> when undefined.  finishCalls counts *)
(* the calls of finish on the group and lateAdds the geometries appended   *)
(* after a call of finish; the code reads neither.                         *)
(***************************************************************************)
REPLAY_ORDER == <<"Image", "LineString", "Polygon", "Point">>

NoReplays == [k \in {} |-> 0]

NullGroup ==
  [isNull |-> TRUE, renderBuffer_ |-> <<>>, replays_ |-> NoReplays,
   keys_ |-> <<>>, finishCalls |-> 0, lateAdds |-> 0]

NewReplayGroup(renderBuffer) ==
  [isNull |-> FALSE, renderBuffer_ |-> renderBuffer, replays_ |-> NoReplays,
   keys_ |-> <<>>, finishCalls |-> 0, lateAdds |-> 0]

\* BATCH_CONSTRUCTORS_[replayType]
NewReplay(replayType) ==
  CASE replayType = "LineString" -> NewLineStringReplay
    [] replayType = "Polygon" -> NewPolygonReplay
    [] replayType = "Point" -> NewPointReplay

SetReplay(g, replayType, r) ==
  [g EXCEPT !.replays_ =
     [k \in DOMAIN g.replays_ \cup {replayType} |->
        IF k = replayType THEN r ELSE g.replays_[k]]]

\* getReplay constructing a replay at every call
GetReplayAlwaysNew(g, replayType) ==
  [SetReplay(g, replayType, NewReplay(replayType))
     EXCEPT !.keys_ = Append(@, replayType)]

\* getReplay: the group afterwards; the replay is then g.replays_[replayType]
GetReplay(g, replayType) ==
  IF replayType \in DOMAIN g.replays_ THEN g
  ELSE [SetReplay(g, replayType, NewReplay(replayType))
          EXCEPT !.keys_ = Append(@, replayType)]

IsEmpty(g) == DOMAIN g.replays_ = {}

ReplayFinish(replayType, r, ctx) ==
  CASE replayType = "LineString" -> [r |-> LineFinish(r), threw |-> FALSE]
    [] replayType = "Polygon" -> PolyFinish(r, ctx)
    [] replayType = "Point" -> [r |-> PointFinish(r), threw |-> FALSE]

RECURSIVE GroupFinishFrom(_, _, _)
RECURSIVE GroupFinishStep(_, _, _, _)
\* the loop of finish after replay k was finished with outcome o
GroupFinishStep(g, ctx, i, o) ==
  IF o.threw THEN [g |-> SetReplay(g, g.keys_[i], o.r), threw |-> TRUE]
  ELSE GroupFinishFrom(SetReplay(g, g.keys_[i], o.r), ctx, i + 1)

GroupFinishFrom(g, ctx, i) ==
  IF i > Len(g.keys_) THEN [g |-> g, threw |-> FALSE]
  ELSE GroupFinishStep(g, ctx, i,
                       ReplayFinish(g.keys_[i], g.replays_[g.keys_[i]], ctx))

\* ReplayGroup.prototype.finish: [g, threw]
GroupFinish(g, ctx) ==
  GroupFinishFrom([g EXCEPT !.finishCalls = @ + 1], ctx, 1)

\* context.deleteBuffer(buf) in a delete-resources closure: name is the field
\* the closure captured the buffer from
DeleteBuffer(name, buf) ==
  Call("deleteBuffer", name, buf.n, IF buf.isNull THEN 1 ELSE 0, 0)

\* getDeleteResourcesFunction of a replay: [threw: the assertion that the
\* buffer exists failed, closure: the calls the returned function issues
\* when it is invoked].  Nothing is deleted before the function is invoked.
LineGetDeleteResourcesFunction(r, ctx, name) ==
  IF ctx.asserts /\ r.verticesBuffer_.isNull
  THEN [threw |-> TRUE, closure |-> <<>>]
  ELSE [threw |-> FALSE,
        closure |-> <<DeleteBuffer(name \o ".verticesBuffer_", r.verticesBuffer_)>>]

\* a polygon replay deleting its two buffers only
PolyGetDeleteResourcesFunctionOwnOnly(r, ctx) ==
  IF ctx.asserts /\ (r.verticesBuffer_.isNull \/ r.indicesBuffer_.isNull)
  THEN [threw |-> TRUE, closure |-> <<>>]
  ELSE [threw |-> FALSE,
        closure |-> <<DeleteBuffer("Polygon.verticesBuffer_", r.verticesBuffer_),
                      DeleteBuffer("Polygon.indicesBuffer_", r.indicesBuffer_)>>]

PolyGetDeleteResourcesFunction(r, ctx) ==
  LET lineDeleter ==
        LineGetDeleteResourcesFunction(r.lineStringReplay_, ctx,
                                       "Polygon.lineStringReplay_")
  IN IF ctx.asserts /\ (r.verticesBuffer_.isNull \/ r.indicesBuffer_.isNull)
     THEN [threw |-> TRUE, closure |-> <<>>]
     ELSE IF lineDeleter.threw THEN [threw |-> TRUE, closure |-> <<>>]
     ELSE [threw |-> FALSE,
           closure |-> <<DeleteBuffer("Polygon.verticesBuffer_", r.verticesBuffer_),
                         DeleteBuffer("Polygon.indicesBuffer_", r.indicesBuffer_)>>
                         \o lineDeleter.closure]

PointGetDeleteResourcesFunction(r, ctx) ==
  IF ctx.asserts /\ r.vertexAttributesBuffer_.isNull
  THEN [threw |-> TRUE, closure |-> <<>>]
  ELSE [threw |-> FALSE,
        closure |-> <<DeleteBuffer("Point.vertexAttributesBuffer_",
                                   r.vertexAttributesBuffer_)>>]

ReplayGetDeleteResourcesFunction(replayType, r, ctx) ==
  CASE replayType = "LineString" -> LineGetDeleteResourcesFunction(r, ctx, "LineString")
    [] replayType = "Polygon" -> PolyGetDeleteResourcesFunction(r, ctx)
    [] replayType = "Point" -> PointGetDeleteResourcesFunction(r, ctx)

RECURSIVE GroupDeleteFunctionsFrom(_, _, _, _)
\* the for-in loop of getDeleteResourcesFunction over replays_ from key i
\* on; goog.functions.sequence calls the collected functions in order
GroupDeleteFunctionsFrom(g, ctx, i, closure) ==
  IF i > Len(g.keys_) THEN [threw |-> FALSE, closure |-> closure]
  ELSE LET o == ReplayGetDeleteResourcesFunction(g.keys_[i],
                                                 g.replays_[g.keys_[i]], ctx)
       IN IF o.threw THEN [threw |-> TRUE, closure |-> <<>>]
          ELSE GroupDeleteFunctionsFrom(g, ctx, i + 1, closure \o o.closure)

\* ReplayGroup.prototype.getDeleteResourcesFunction: [threw, closure]
GroupGetDeleteResourcesFunction(g, ctx) == GroupDeleteFunctionsFrom(g, ctx, 1, <<>>)

ReplayReplay(replayType, r, gl, ctx, P) ==
  CASE replayType = "LineString" -> LineReplay(r, gl, ctx, P)
    [] replayType = "Polygon" -> PolyReplay(r, gl, ctx, P)
    [] replayType = "Point" -> PointReplay(r, gl, ctx, P)

\* the outcome of a group operation: as Outcome, with the group for r
RECURSIVE GroupReplayFrom(_, _, _, _, _, _)
RECURSIVE GroupReplayStep(_, _, _, _, _, _)
\* the loop of replay after the replay of type REPLAY_ORDER[i] returned o
GroupReplayStep(g, ctx, P, i, calls, o) ==
  IF o.threw
  THEN Outcome(SetReplay(g, REPLAY_ORDER[i], o.r), o.gl, calls \o o.calls, 0, TRUE)
  ELSE GroupReplayFrom(SetReplay(g, REPLAY_ORDER[i], o.r), o.gl, ctx, P, i + 1,
                       calls \o o.calls)

GroupReplayFrom(g, gl, ctx, P, i, calls) ==
  IF i > Len(REPLAY_ORDER) THEN Outcome(g, gl, calls, 0, FALSE)
  ELSE IF REPLAY_ORDER[i] \in DOMAIN g.replays_
       THEN GroupReplayStep(g, ctx, P, i,
                            Append(calls, Call("replay", REPLAY_ORDER[i], 0, 0, 0)),
                            ReplayReplay(REPLAY_ORDER[i], g.replays_[REPLAY_ORDER[i]],
                                         gl, ctx, P))
       ELSE GroupReplayFrom(g, gl, ctx, P, i + 1, calls)

\* ReplayGroup.prototype.replay
GroupReplay(g, gl, ctx, skipped) ==
  GroupReplayFrom(g, gl, ctx, Params("bulk", <<0, 0>>, skipped, {}, <<>>), 1, <<>>)

RECURSIVE GroupHitFrom(_, _, _, _, _, _)
RECURSIVE GroupHitStep(_, _, _, _, _, _)
\* the loop of replayHitDetection_ after the replay of type REPLAY_ORDER[i]
\* returned o
GroupHitStep(g, ctx, P, i, calls, o) ==
  IF o.threw \/ o.result # 0
  THEN Outcome(SetReplay(g, REPLAY_ORDER[i], o.r), o.gl, calls \o o.calls,
               o.result, o.threw)
  ELSE GroupHitFrom(SetReplay(g, REPLAY_ORDER[i], o.r), o.gl, ctx, P, i - 1,
                    calls \o o.calls)

GroupHitFrom(g, gl, ctx, P, i, calls) ==
  IF i < 1 THEN Outcome(g, gl, calls, 0, FALSE)
  ELSE IF REPLAY_ORDER[i] \in DOMAIN g.replays_
       THEN GroupHitStep(g, ctx, P, i,
                         Append(calls, Call("replay", REPLAY_ORDER[i], 0, 0, 0)),
                         ReplayReplay(REPLAY_ORDER[i], g.replays_[REPLAY_ORDER[i]],
                                      gl, ctx, P))
       ELSE GroupHitFrom(g, gl, ctx, P, i - 1, calls)

\* replayHitDetection_ iterating REPLAY_ORDER upwards, as replay does
ReplayHitDetectionAscending(g, gl, ctx, P) ==
  GroupReplayFrom(g, gl, ctx, P, 1, <<>>)

\* ReplayGroup.prototype.replayHitDetection_
ReplayHitDetection(g, gl, ctx, P) ==
  GroupHitFrom(g, gl, ctx, P, Len(REPLAY_ORDER), <<>>)

\* ReplayGroup.prototype.forEachFeatureAtCoordinate (resolution 1)
ForEachFeatureAtCoordinate(g, gl, ctx, coordinate, skipped, accept) ==
  LET hitExtent == IF g.renderBuffer_ # <<>>
                   THEN ExtentAround(coordinate, 1 * g.renderBuffer_[1])
                   ELSE <<>>
  IN ReplayHitDetection(g, gl, ctx,
                        Params("forEach", coordinate, skipped, accept, hitExtent))

\* ReplayGroup.prototype.hasFeatureAtCoordinate: the outcome of the
\* hit-detection pass; the method returns result # 0
HasFeatureAtCoordinate(g, gl, ctx, coordinate, skipped) ==
  ReplayHitDetection(g, gl, ctx, Params("has", coordinate, skipped, {}, <<>>))

(***************************************************************************)
(* ol.renderer.vector.renderFeature: the dispatch on the geometry type.    *)
(* A replay is requested only for a style that has the fill or stroke the  *)
(* geometry type draws with.                                               *)
(***************************************************************************)
ReplayTypeOf(f) ==
  CASE f.type \in {"Polygon", "MultiPolygon"} -> "Polygon"
    [] f.type \in {"LineString"} -> "LineString"
    [] f.type \in {"Point"} -> "Point"

Draws(f, style) ==
  IF f.type = "LineString" THEN ~style.stroke.isNull
  ELSE ~style.fill.isNull \/ ~style.stroke.isNull

VectorRenderFeature(g, f, style) ==
  IF ~Draws(f, style) THEN g
  ELSE
    LET k == ReplayTypeOf(f)
        g1 == GetReplay(g, k)
        r == g1.replays_[k]
        r1 == CASE f.type = "Polygon" ->
                     PolyDrawPolygon(PolySetFillStrokeStyle(r, style.fill, style.stroke), f)
                [] f.type = "MultiPolygon" ->
                     PolyDrawMultiPolygon(PolySetFillStrokeStyle(r, style.fill, style.stroke), f)
                [] f.type = "LineString" ->
                     LineDrawLineString(LineSetFillStrokeStyle(r, NoStyle, style.stroke), f)
                [] f.type = "Point" ->
                     PointDrawPoint(PointSetFillStrokeStyle(r, style.fill, style.stroke), f)
    IN [SetReplay(g1, k, r1) EXCEPT
          !.lateAdds = IF g.finishCalls > 0 THEN @ + 1 ELSE @]

\* VectorTileLayer.prototype.renderFeature: every style of the array in turn
RECURSIVE RendererRenderFeature(_, _, _)
RendererRenderFeature(g, f, styles) ==
  IF styles = <<>> THEN g
  ELSE RendererRenderFeature(VectorRenderFeature(g, f, Head(styles)), f, Tail(styles))

\* the style functions the renderFeature closure calls for a feature
StyleFunctionCalls(f) ==
  <<Call("styleFunction", IF f.hasFn THEN "feature" ELSE "layer", 0, 0, f.uid)>>

\* a resolution that falls back to the layer's style function when the
\* feature's own yields no style
ResolveStylesLayerFallback(f) ==
  IF f.hasFn /\ f.fnStyles # <<>> THEN f.fnStyles ELSE f.layerStyles

\* the style resolution of createReplayGroup_'s renderFeature closure: the
\* feature's style function if it has one, else the layer's
ResolveStyles(f) == IF f.hasFn THEN f.fnStyles ELSE f.layerStyles

RenderFeatureClosure(g, f) ==
  LET styles == ResolveStyles(f) IN
  IF styles # <<>> THEN RendererRenderFeature(g, f, styles) ELSE g


(***************************************************************************)
(* State.                                                                  *)
(*   ctx            the WebGL context: hasOES, asserts                     *)
(*   gl             the GL state                                           *)
(*   group, added   SpecReplay: the replay group under test and the uids   *)
(*                  of the features rendered into it, in order             *)
(*   tileState .. renderOrder   Spec: the tiles of the source, the         *)
(*                  renderer's fields and the layer's properties           *)
(*   last           what the last operation was given and what it did      *)
(*   layer, stack   SpecLayer: the min and max properties of an             *)
(*                  ol.layer.Base and the calls of setMin / setMax that    *)
(*                  are in progress, innermost last                        *)
(***************************************************************************)
VARIABLES ctx, gl, group, added, tileState, replayState, renderedTiles_,
          dirty_, revision, renderOrder, last, layer, stack

vars == <<ctx, gl, group, added, tileState, replayState, renderedTiles_,
          dirty_, revision, renderOrder, last, layer, stack>>

rendererVars == <<tileState, replayState, renderedTiles_, dirty_, revision,
                  renderOrder>>

Contexts == [hasOES : BOOLEAN, asserts : BOOLEAN]

NoParams == Params("none", <<0, 0>>, {}, {}, <<>>)

\* the record of an operation on the group under test; repeat: the operation
\* before it was the same operation with the same parameters, same: and it
\* issued the same calls
Did(op, P, calls, result, threw, repeat, same) ==
  [op |-> op, P |-> P, calls |-> calls, result |-> result, threw |-> threw,
   repeat |-> repeat, same |-> same]

(***************************************************************************)
(* SpecReplay: one ReplayGroup driven directly: features are rendered into *)
(* it, it is finished, then replayed and queried.                          *)
(***************************************************************************)
RenderBuffers == {<<>>, <<0>>}
SkippedSets == {{}, {1}, {4}}
Coordinates == {<<1, 1>>, <<3, 3>>}
AcceptSets == {{}, Uids}

\* a layer with the default min and max on which no call is in progress
IdleLayer == layer = [min |-> 0, max |-> 1] /\ stack = <<>>

InitRenderer ==
  /\ IdleLayer
  /\ tileState = <<>>
  /\ replayState = <<>>
  /\ renderedTiles_ = <<>>
  /\ dirty_ = FALSE
  /\ revision = 0
  /\ renderOrder = "null"

InitReplay ==
  /\ ctx \in Contexts
  /\ gl = InitGL
  /\ group \in {NewReplayGroup(b) : b \in RenderBuffers}
  /\ added = <<>>
  /\ last = Did("new", NoParams, <<>>, 0, FALSE, FALSE, FALSE)
  /\ InitRenderer

\* renderFeature(feature) of the group's builder
Add(f) ==
  /\ group.finishCalls = 0
  /\ Len(added) < MaxFeatures
  /\ f.uid \notin Range(added)
  /\ group' = RenderFeatureClosure(group, f)
  /\ added' = Append(added, f.uid)
  /\ last' = Did("add", NoParams, StyleFunctionCalls(f), 0, FALSE, FALSE, FALSE)
  /\ UNCHANGED <<layer, stack, ctx, gl>>
  /\ UNCHANGED rendererVars

\* replayGroup.finish(context)
Finish ==
  /\ group.finishCalls = 0
  /\ LET o == GroupFinish(group, ctx) IN
     /\ group' = o.g
     /\ last' = Did("finish", NoParams, <<>>, 0, o.threw, FALSE, FALSE)
  /\ UNCHANGED <<layer, stack, ctx, gl, added>>
  /\ UNCHANGED rendererVars

Apply(op, P, o) ==
  /\ group' = o.r
  /\ gl' = o.gl
  /\ last' = Did(op, P, o.calls, o.result, o.threw,
                 last.op = op /\ last.P = P,
                 last.op = op /\ last.P = P /\ last.calls = o.calls)
  /\ UNCHANGED <<layer, stack, ctx, added>>
  /\ UNCHANGED rendererVars

\* replayGroup.replay(context, ..., skippedFeaturesHash)
Replay(skipped) ==
  /\ group.finishCalls > 0
  /\ Apply("replay", Params("bulk", <<0, 0>>, skipped, {}, <<>>),
           GroupReplay(group, gl, ctx, skipped))

\* replayGroup.forEachFeatureAtCoordinate(coordinate, ..., callback)
ForEach(coordinate, skipped, accept) ==
  /\ group.finishCalls > 0
  /\ LET o == ForEachFeatureAtCoordinate(group, gl, ctx, coordinate, skipped, accept)
     IN Apply("forEach",
              Params("forEach", coordinate, skipped, accept,
                     IF group.renderBuffer_ # <<>>
                     THEN ExtentAround(coordinate, group.renderBuffer_[1])
                     ELSE <<>>),
              o)

\* replayGroup.hasFeatureAtCoordinate(coordinate, ...)
Has(coordinate, skipped) ==
  /\ group.finishCalls > 0
  /\ Apply("has", Params("has", coordinate, skipped, {}, <<>>),
           HasFeatureAtCoordinate(group, gl, ctx, coordinate, skipped))

\* replayGroup.getDeleteResourcesFunction(context) and then a call of the
\* function it returns; the log holds the calls issued while the function is
\* obtained, the mark "invoke", and the calls the function issues
DeleteResources ==
  /\ group.finishCalls > 0
  /\ \E o \in {GroupGetDeleteResourcesFunction(group, ctx)} :
       last' = Did("deleteResources", NoParams,
                   IF o.threw THEN <<>>
                   ELSE <<Call("invoke", "", 0, 0, 0)>> \o o.closure,
                   0, o.threw, FALSE, FALSE)
  /\ UNCHANGED <<layer, stack, ctx, gl, group, added>>
  /\ UNCHANGED rendererVars

NextReplay ==
  \/ \E f \in Catalog : Add(f)
  \/ Finish
  \/ DeleteResources
  \/ \E skipped \in SkippedSets : Replay(skipped)
  \/ \E c \in Coordinates, skipped \in SkippedSets, accept \in AcceptSets :
       ForEach(c, skipped, accept)
  \/ \E c \in Coordinates, skipped \in SkippedSets : Has(c, skipped)

SpecReplay == InitReplay /\ [][NextReplay]_vars

(***************************************************************************)
(* SpecBatch: one ReplayGroup filled with polygons, among them a polygon   *)
(* with a degenerate ring and one with more vertices than 16-bit element   *)
(* indices address, and with points styled by the layer's or by their own  *)
(* style function, and then finished.                                      *)
(***************************************************************************)
InitBatch ==
  /\ ctx \in Contexts
  /\ gl = InitGL
  /\ group = NewReplayGroup(<<>>)
  /\ added = <<>>
  /\ last = Did("new", NoParams, <<>>, 0, FALSE, FALSE, FALSE)
  /\ InitRenderer

NextBatch ==
  \/ \E f \in BatchCatalog : Add(f)
  \/ Finish

SpecBatch == InitBatch /\ [][NextBatch]_vars


(***************************************************************************)
(* Vocabulary of the properties of SpecReplay.                             *)
(***************************************************************************)
HitOps == {"forEach", "has"}
DrawOps == {"drawElements", "drawArrays"}

\* the replay types a call log visits, in order
RECURSIVE Visited(_)
Visited(calls) ==
  IF calls = <<>> THEN <<>>
  ELSE IF Head(calls).op = "replay" THEN <<Head(calls).k>> \o Visited(Tail(calls))
  ELSE Visited(Tail(calls))

\* the replay types the group owns, in REPLAY_ORDER
Present(g) ==
  LET keep(k) == k \in DOMAIN g.replays_ IN SelectSeq(REPLAY_ORDER, keep)

\* the positions of a log at which op is called for feature uid
CallsOf(calls, op, uid) ==
  {i \in 1..Len(calls) : calls[i].op = op /\ calls[i].f = uid}

\* the feature was given a style that makes it append geometry
Rendered(uid) ==
  LET f == FeatureByUid(uid)
      styles == ResolveStyles(f)
  IN /\ styles # <<>>
     /\ IF f.type = "LineString" THEN ~styles[1].stroke.isNull
        ELSE ~styles[1].fill.isNull

OnSegment(p, a, b) ==
  /\ Orient(a, b, p) = 0
  /\ Min({a[1], b[1]}) <= p[1] /\ p[1] <= Max({a[1], b[1]})
  /\ Min({a[2], b[2]}) <= p[2] /\ p[2] <= Max({a[2], b[2]})

InPolygon(p, rings) ==
  LET t == Earcut(rings)
      v(i) == t.vertices[t.indices[i] + 1]
  IN \E j \in 0..((Len(t.indices) \div 3) - 1) :
       InTriangle(p, v(3 * j + 1), v(3 * j + 2), v(3 * j + 3))

\* the coordinate lies inside the feature's geometry
Covers(uid, p) ==
  LET f == FeatureByUid(uid) IN
  CASE f.type = "Point" -> f.coords = p
    [] f.type = "LineString" ->
         \E i \in 1..(Len(f.coords) - 1) : OnSegment(p, f.coords[i], f.coords[i + 1])
    [] f.type = "Polygon" -> InPolygon(p, f.coords)
    [] f.type = "MultiPolygon" -> \E i \in 1..Len(f.coords) : InPolygon(p, f.coords[i])

\* the number of element indices the feature's own triangles take
IndexCount(uid) ==
  LET f == FeatureByUid(uid) IN
  CASE f.type = "Polygon" -> Len(Earcut(f.coords).indices)
    [] f.type = "MultiPolygon" ->
         Len(Concat([i \in 1..Len(f.coords) |-> Earcut(f.coords[i]).indices]))
    [] OTHER -> 0

\* the features of the replay type among those added, in insertion order
AddedOf(replayType) ==
  LET keep(u) == Rendered(u) /\ ReplayTypeOf(FeatureByUid(u)) = replayType
  IN SelectSeq(added, keep)

RECURSIVE OwnStart(_, _)
\* the first element index of the feature's own range in a polygon replay
\* holding the features of the sequence
OwnStart(uids, uid) ==
  IF uids = <<>> \/ Head(uids) = uid THEN 0
  ELSE IndexCount(Head(uids)) + OwnStart(Tail(uids), uid)

\* the uids the per-feature callback is invoked for, in order
RECURSIVE Probes(_)
Probes(calls) ==
  IF calls = <<>> THEN <<>>
  ELSE IF Head(calls).op = "featureCallback"
       THEN <<Head(calls).f>> \o Probes(Tail(calls))
       ELSE Probes(Tail(calls))

\* the features hit detection has to probe, in the order it has to: replay
\* types in reverse priority, features in reverse insertion order
ToProbe(P) ==
  LET keep(u) == Probed(P, u)
  IN SelectSeq(Reverse(AddedOf("Point")), keep)
       \o SelectSeq(Reverse(AddedOf("Polygon")), keep)
       \o SelectSeq(Reverse(AddedOf("LineString")), keep)


\* every replay of the group has the buffers finish creates
Finished(g) ==
  /\ g.finishCalls > 0
  /\ \A k \in DOMAIN g.replays_ :
       CASE k = "LineString" -> ~g.replays_[k].verticesBuffer_.isNull
         [] k = "Polygon" -> /\ ~g.replays_[k].verticesBuffer_.isNull
                             /\ ~g.replays_[k].indicesBuffer_.isNull
         [] k = "Point" -> ~g.replays_[k].vertexAttributesBuffer_.isNull

\* the replays without the shader locations they cache
ReplayData(g) ==
  [k \in DOMAIN g.replays_ |->
     IF k = "Polygon"
     THEN [g.replays_[k] EXCEPT !.defaultLocations_ = FALSE,
                                !.lineStringReplay_.defaultLocations_ = FALSE]
     ELSE [g.replays_[k] EXCEPT !.defaultLocations_ = FALSE]]

\* the buffers the replays of a group own, by the field that holds them
GroupBuffers(g) ==
  UNION {CASE k = "Polygon" -> {"Polygon.verticesBuffer_", "Polygon.indicesBuffer_",
                                "Polygon.lineStringReplay_.verticesBuffer_"}
           [] k = "LineString" -> {"LineString.verticesBuffer_"}
           [] k = "Point" -> {"Point.vertexAttributesBuffer_"}
         : k \in DOMAIN g.replays_}

\* the positions of a log at which the buffer of the named field is deleted
DeletionsOf(calls, name) ==
  {i \in 1..Len(calls) : calls[i].op = "deleteBuffer" /\ calls[i].k = name}

(***************************************************************************)
(* Properties of SpecReplay.                                               *)
(***************************************************************************)

\* C4: a forEachFeatureAtCoordinate query on a finished group, at a
\* coordinate inside the geometry of an added Point, LineString or Polygon
\* feature that no other added feature covers, invokes the caller's callback
\* exactly once for that feature.
C4_CallbackOncePerHitFeature ==
  (last.op = "forEach" /\ last.P.skipped = {} /\ Finished(group)) =>
    \A u \in Range(added) :
      ( /\ Rendered(u)
        /\ Covers(u, last.P.coordinate)
        /\ \A v \in Range(added) \ {u} :
             ~(Rendered(v) /\ Covers(v, last.P.coordinate)) )
      => Cardinality(CallsOf(last.calls, "callback", u)) = 1

\* C5: a bulk replay visits the replays the group owns in ascending
\* REPLAY_ORDER and a hit-detection pass visits them in the reverse order,
\* a type without a replay being skipped in both; a pass that is cut short
\* (by a truthy result or an error) has visited a prefix of that order.
C5_ReplayOrder ==
  /\ last.op = "replay" =>
       /\ IsPrefix(Visited(last.calls), Present(group))
       /\ ~last.threw => Visited(last.calls) = Present(group)
  /\ last.op \in HitOps =>
       /\ IsPrefix(Visited(last.calls), Reverse(Present(group)))
       /\ (~last.threw /\ last.result = 0) =>
            Visited(last.calls) = Reverse(Present(group))

C5_Witness ==
  /\ last.op = "has"
  /\ ~last.threw
  /\ last.result = 0
  /\ Visited(last.calls) = <<"Polygon", "LineString">>

\* C6: in hit-detection mode the features are probed in reverse insertion
\* order (replay types in reverse priority), each probe is one draw of the
\* feature followed by the callback, and a truthy result ends the pass.
C6_ReverseOrderOneDrawPerProbe ==
  (last.op \in HitOps /\ Finished(group)) =>
    /\ IsPrefix(Probes(last.calls), ToProbe(last.P))
    /\ last.result = 0 => Probes(last.calls) = ToProbe(last.P)
    /\ \A i \in 1..Len(last.calls) :
         last.calls[i].op = "featureCallback" =>
           /\ i > 1
           /\ last.calls[i - 1].op \in DrawOps
           /\ last.calls[i - 1].f = last.calls[i].f
    /\ last.result # 0 =>
         last.calls[Len(last.calls)].op \in {"featureCallback", "callback"}

\* C7: during hit detection the per-feature callback is invoked for no
\* excluded and no non-intersecting feature, and for every other feature
\* the target is cleared, the feature's own index range is drawn and then
\* the callback is invoked.
C7_ProbeOwnRangeOnly ==
  (last.op \in HitOps /\ Finished(group)) =>
    /\ \A u \in Range(Probes(last.calls)) : Probed(last.P, u)
    /\ \A i \in 1..Len(last.calls) :
         last.calls[i].op = "featureCallback" =>
           /\ i > 2
           /\ last.calls[i - 2].op = "clear"
           /\ last.calls[i - 1].op = "drawElements"
           /\ last.calls[i - 1].a = IndexCount(last.calls[i].f)
           /\ last.calls[i - 1].b =
                OwnStart(AddedOf("Polygon"), last.calls[i].f) * ElementSize(ctx)
    /\ last.result = 0 => Range(ToProbe(last.P)) \subseteq Range(Probes(last.calls))

\* C8: a bulk replay of a finished group issues, for every added feature
\* that is not excluded, a draw call over the whole buffer of the feature's
\* replay, whatever the excluded set is.
C8_BulkDrawsAllNotExcluded ==
  (last.op = "replay" /\ Finished(group)) =>
    \A u \in Range(added) \ last.P.skipped :
      Rendered(u) =>
        LET k == ReplayTypeOf(FeatureByUid(u))
            r == group.replays_[k]
        IN \E i \in 1..Len(last.calls) :
             CASE k = "Polygon" -> /\ last.calls[i].op = "drawElements"
                                   /\ last.calls[i].a = Len(r.indices_)
               [] k = "LineString" -> /\ last.calls[i].op = "drawArrays"
                                      /\ last.calls[i].k = "LINES"
                                      /\ last.calls[i].b = Len(r.vertices_)
               [] k = "Point" -> /\ last.calls[i].op = "drawArrays"
                                 /\ last.calls[i].k = "POINTS"
                                 /\ last.calls[i].b = Len(r.features_)

\* C10: a replay that repeats the previous one (same operation, same
\* parameters, nothing in between) issues the same calls, and no replay
\* changes the vertex data, the index data, the per-feature ranges or the
\* buffers of the group's replays.
C10_ReplayRepeatable ==
  [][last'.op \in {"replay"} \cup HitOps =>
       /\ ReplayData(group') = ReplayData(group)
       /\ last'.repeat => last'.same]_vars

C10_Witness ==
  /\ last.op = "replay"
  /\ last.repeat
  /\ last.same
  /\ \E i \in 1..Len(last.calls) :
       last.calls[i].op = "drawElements" /\ last.calls[i].a > 0
  /\ \E i \in 1..Len(last.calls) :
       last.calls[i].op = "drawArrays" /\ last.calls[i].b > 0


(***************************************************************************)
(* The tile grid and the tile source (ol.tilegrid.TileGrid,                *)
(* ol.source.VectorTile), in one dimension: a tile is <<z, x>>, the tile   *)
(* size is one pixel, so a tile of zoom z is Resolutions[z + 1] wide and   *)
(* tile <<z, x>> has the two children <<z + 1, 2x>> and <<z + 1, 2x + 1>>. *)
(* The view shows extents within [0, 2]; Tiles are the tiles of the grid   *)
(* over that part of the world.  An extent is <<minX, maxX>>, empty when   *)
(* maxX < minX.                                                            *)
(***************************************************************************)
Resolutions == <<4, 2, 1>>
MinZoom == 0
MaxZoom == Len(Resolutions) - 1

Tiles == {<<0, 0>>, <<1, 0>>, <<2, 0>>, <<2, 1>>}

TileStates == {"IDLE", "LOADING", "LOADED", "ERROR", "EMPTY"}

\* tile.getFeatures() of a loaded tile
TileFeatures(t) ==
  CASE t = <<0, 0>> -> <<PolyA>>
    [] t = <<1, 0>> -> <<PolyS>>
    [] t = <<2, 0>> -> <<Line, Pt>>
    [] t = <<2, 1>> -> <<Bare>>

EmptyExtent == <<1, 0>>
IsEmptyExtent(e) == e[2] < e[1]

\* ol.extent.getIntersection
GetIntersection(e1, e2) ==
  IF e1[1] <= e2[2] /\ e1[2] >= e2[1]
  THEN <<Max({e1[1], e2[1]}), Min({e1[2], e2[2]})>>
  ELSE EmptyExtent

\* tileGrid.getTileRangeForExtentAndZ: <<minX, maxX>>; a tile that only
\* touches the extent's upper edge is not in the range
GetTileRangeForExtentAndZ(e, z) ==
  LET w == Resolutions[z + 1] IN
  << e[1] \div w, IF e[2] > e[1] THEN (e[2] - 1) \div w ELSE e[2] \div w >>

TileExtent(t) ==
  LET w == Resolutions[t[1] + 1] IN <<t[2] * w, (t[2] + 1) * w>>

\* the search stepping over a level whose resolution equals the view's
RECURSIVE ZoomDownInNonStrict(_, _, _)
ZoomDownInNonStrict(resolutions, z, resolution) ==
  IF z > 0 /\ resolutions[z + 1] <= resolution
  THEN ZoomDownInNonStrict(resolutions, z - 1, resolution)
  ELSE z

\* prepareFrame's search for the zoom over the table resolutions, from the
\* (JavaScript) index z down
RECURSIVE ZoomDownIn(_, _, _)
ZoomDownIn(resolutions, z, resolution) ==
  IF z > 0 /\ resolutions[z + 1] < resolution
  THEN ZoomDownIn(resolutions, z - 1, resolution)
  ELSE z

\* the closest zoom for a view resolution
RECURSIVE ZoomDown(_, _)
ZoomDown(z, resolution) ==
  IF z > 0 /\ Resolutions[z + 1] < resolution THEN ZoomDown(z - 1, resolution)
  ELSE z

ZoomForResolution(resolution) == ZoomDown(Len(Resolutions) - 1, resolution)

RECURSIVE Pow2(_)
Pow2(n) == IF n = 0 THEN 1 ELSE 2 * Pow2(n - 1)

\* the tile range of zoom z that contains tile t (z below t's zoom)
ParentTileRange(t, z) ==
  LET x == t[2] \div Pow2(t[1] - z) IN <<x, x>>

\* tileGrid.getTileCoordChildTileRange: <<>> (null) at the maximum zoom
GetTileCoordChildTileRange(t) ==
  IF t[1] < MaxZoom THEN <<2 * t[2], 2 * t[2] + 1>> ELSE <<>>

(***************************************************************************)
(* tilesToDrawByZ: keys lists the zoom levels in the order they were       *)
(* added, at[z + 1] the tiles of zoom z in the order they were added.      *)
(* probes lists the calls of the loaded-tile finder, <<z, tileRange>>      *)
(* each, in the order they were made; the code keeps no such list.         *)
(***************************************************************************)
NewTilesToDraw(z) ==
  [keys |-> <<z>>, at |-> [i \in 1..(MaxZoom + 1) |-> <<>>], probes |-> <<>>]

PutTile(byZ, t) ==
  [byZ EXCEPT
     !.keys = IF t[1] \in Range(@) THEN @ ELSE Append(@, t[1]),
     !.at = [@ EXCEPT ![t[1] + 1] = IF t \in Range(@) THEN @ ELSE Append(@, t)]]

\* source.getTile(z, x, ...).getState(); a tile the source has never been
\* asked for is created idle
StateOf(states, t) == IF t \in DOMAIN states THEN states[t] ELSE "IDLE"

\* the loaded-tile finder over the range from x on: [byZ, covered]
RECURSIVE FindLoadedFrom(_, _, _, _, _)
FindLoadedFrom(states, byZ, z, x, maxX) ==
  IF x > maxX THEN [byZ |-> byZ, covered |-> TRUE]
  ELSE IF StateOf(states, <<z, x>>) = "LOADED"
       THEN FindLoadedFrom(states, PutTile(byZ, <<z, x>>), z, x + 1, maxX)
       ELSE [byZ |-> FindLoadedFrom(states, byZ, z, x + 1, maxX).byZ,
             covered |-> FALSE]

\* findLoadedTiles(z, tileRange) of createLoadedTileFinder
FindLoadedTiles(states, byZ, z, range) ==
  FindLoadedFrom(states, [byZ EXCEPT !.probes = Append(@, <<z, range>>)], z,
                 range[1], range[2])

\* tileGrid.forEachTileCoordParentTileRange(tileCoord, findLoadedTiles):
\* from zoom z down to the minimum zoom, stopping at the first covered range
RECURSIVE ForEachParent(_, _, _, _)
ForEachParent(states, byZ, t, z) ==
  IF z < MinZoom THEN [byZ |-> byZ, covered |-> FALSE]
  ELSE LET o == FindLoadedTiles(states, byZ, z, ParentTileRange(t, z))
       IN IF o.covered THEN o ELSE ForEachParent(states, o.byZ, t, z - 1)

\* the test recording every tile in error, whatever the layer's setting
DrawableAnyError(state, useInterimTilesOnError) ==
  state \in {"LOADED", "EMPTY", "ERROR"}

\* the tile can be recorded at the target zoom as it is
Drawable(state, useInterimTilesOnError) ==
  \/ state = "LOADED"
  \/ state = "EMPTY"
  \/ (state = "ERROR" /\ ~useInterimTilesOnError)

\* the loop body probing the child tile range whatever the search of the
\* ancestors reported
SelectTileAlwaysChildren(states, byZ, t, useInterimTilesOnError) ==
  IF Drawable(StateOf(states, t), useInterimTilesOnError)
  THEN PutTile(byZ, t)
  ELSE LET p == ForEachParent(states, byZ, t, t[1] - 1)
           childTileRange == GetTileCoordChildTileRange(t)
       IN IF childTileRange # <<>>
          THEN FindLoadedTiles(states, p.byZ, t[1] + 1, childTileRange).byZ
          ELSE p.byZ

\* the loop body without the probe of the child tile range
SelectTileNoChildren(states, byZ, t, useInterimTilesOnError) ==
  IF Drawable(StateOf(states, t), useInterimTilesOnError)
  THEN PutTile(byZ, t)
  ELSE ForEachParent(states, byZ, t, t[1] - 1).byZ

\* the body of prepareFrame's loop for one tile coordinate
SelectTile(states, byZ, t, useInterimTilesOnError) ==
  IF Drawable(StateOf(states, t), useInterimTilesOnError)
  THEN PutTile(byZ, t)
  ELSE LET p == ForEachParent(states, byZ, t, t[1] - 1)
           childTileRange == GetTileCoordChildTileRange(t)
       IN IF ~p.covered /\ childTileRange # <<>>
          THEN FindLoadedTiles(states, p.byZ, t[1] + 1, childTileRange).byZ
          ELSE p.byZ

RECURSIVE SelectFrom(_, _, _, _, _, _)
SelectFrom(states, byZ, z, x, maxX, useInterimTilesOnError) ==
  IF x > maxX THEN byZ
  ELSE SelectFrom(states, SelectTile(states, byZ, <<z, x>>, useInterimTilesOnError),
                  z, x + 1, maxX, useInterimTilesOnError)

\* prepareFrame's loop over the visible tile range: tilesToDrawByZ
SelectTiles(states, z, tileRange, useInterimTilesOnError) ==
  SelectFrom(states, NewTilesToDraw(z), z, tileRange[1], tileRange[2],
             useInterimTilesOnError)

\* the zoom levels left in the order the keys were added
SortZsOmitted(zs) == zs

\* zs.sort(ol.array.numberSafeCompareFunction): ascending
RECURSIVE SortZs(_)
SortZs(zs) ==
  IF zs = <<>> THEN <<>>
  ELSE LET m == Min(Range(zs))
           rest(z) == z # m
       IN <<m>> \o SortZs(SelectSeq(zs, rest))

\* the tiles of tilesToDrawByZ in the order prepareFrame visits them
TilesInOrder(byZ) ==
  LET zs == SortZs(byZ.keys) IN Concat([i \in 1..Len(zs) |-> byZ.at[zs[i] + 1]])


(***************************************************************************)
(* ol.renderer.webgl.VectorTileLayer.  The replay state of a tile is the   *)
(* object tile.getReplayState() returns; resolution 0 stands for the       *)
(* undefined resolution of a tile that was never built.                    *)
(***************************************************************************)
InitReplayState ==
  [dirty |-> FALSE, renderedRevision |-> -1, renderedRenderOrder |-> "null",
   resolution |-> 0, replayGroup |-> NullGroup]

\* layer.getRenderBuffer()
LayerRenderBuffer == <<100>>

\* the test at the head of createReplayGroup_: the cached group is current
Fresh(rs, rev, order, resolution) ==
  /\ ~rs.dirty
  /\ rs.renderedRevision = rev
  /\ rs.renderedRenderOrder = order
  /\ rs.resolution = resolution

RECURSIVE RenderFeatures(_, _)
\* features.forEach(renderFeature, this)
RenderFeatures(g, features) ==
  IF features = <<>> THEN g
  ELSE RenderFeatures(RenderFeatureClosure(g, Head(features)), Tail(features))

\* goog.dispose(replayState.replayGroup): the deleteBuffer calls it issues.
\* goog.dispose calls the dispose method of an object that has one; a
\* ReplayGroup defines none, so nothing is called for it
GoogDispose(g) == <<>>

\* the end of createReplayGroup_: o is the outcome of replayGroup.finish;
\* the stamps and the group are stored only when finish returns
StampReplayState(rs1, rev, order, resolution, deleted, o) ==
  IF o.threw
  THEN [rs |-> rs1, built |-> TRUE, threw |-> TRUE, deleted |-> deleted]
  ELSE [rs |-> [rs1 EXCEPT !.renderedRevision = rev,
                           !.renderedRenderOrder = order,
                           !.resolution = resolution,
                           !.replayGroup = o.g],
        built |-> TRUE, threw |-> FALSE, deleted |-> deleted]

\* createReplayGroup_ storing the group without finishing it
CreateReplayGroupUnfinished(rs, t, rev, order, resolution, c) ==
  IF Fresh(rs, rev, order, resolution)
  THEN [rs |-> rs, built |-> FALSE, threw |-> FALSE, deleted |-> <<>>]
  ELSE [rs |-> [rs EXCEPT !.dirty = FALSE,
                          !.renderedRevision = rev,
                          !.renderedRenderOrder = order,
                          !.resolution = resolution,
                          !.replayGroup =
                            RenderFeatures(NewReplayGroup(LayerRenderBuffer),
                                           TileFeatures(t))],
        built |-> TRUE, threw |-> FALSE, deleted |-> GoogDispose(rs.replayGroup)]

\* createReplayGroup_ leaving the stamps of a tile whose group came out
\* empty as they were
CreateReplayGroupNoStampWhenEmpty(rs, t, rev, order, resolution, c) ==
  IF Fresh(rs, rev, order, resolution)
  THEN [rs |-> rs, built |-> FALSE, threw |-> FALSE, deleted |-> <<>>]
  ELSE LET g == GroupFinish(RenderFeatures(NewReplayGroup(LayerRenderBuffer),
                                           TileFeatures(t)), c)
       IN IF ~g.threw /\ IsEmpty(g.g)
          THEN [rs |-> [rs EXCEPT !.replayGroup = g.g, !.dirty = FALSE],
                built |-> TRUE, threw |-> FALSE,
                deleted |-> GoogDispose(rs.replayGroup)]
          ELSE StampReplayState([rs EXCEPT !.replayGroup = NullGroup,
                                           !.dirty = FALSE],
                                rev, order, resolution,
                                GoogDispose(rs.replayGroup), g)

\* createReplayGroup_: [rs: the replay state afterwards, built: a replay
\* group was constructed, threw: finish raised an error, deleted: the
\* deleteBuffer calls issued for the group that was replaced]
CreateReplayGroup(rs, t, rev, order, resolution, c) ==
  IF Fresh(rs, rev, order, resolution)
  THEN [rs |-> rs, built |-> FALSE, threw |-> FALSE, deleted |-> <<>>]
  ELSE StampReplayState([rs EXCEPT !.replayGroup = NullGroup, !.dirty = FALSE],
                         rev, order, resolution, GoogDispose(rs.replayGroup),
                         GroupFinish(RenderFeatures(NewReplayGroup(LayerRenderBuffer),
                                                    TileFeatures(t)), c))

\* one entry per call of createReplayGroup_ in a prepareFrame
Build(t, built, threw, deleted) ==
  [tile |-> t, built |-> built, threw |-> threw, deleted |-> deleted]

\* prepareFrame's loop over the tiles to draw, from position i on:
\* [rs, replayables, builds, threw]
RECURSIVE BuildFrom(_, _, _, _, _, _, _, _, _, _)
RECURSIVE BuildStep(_, _, _, _, _, _, _, _, _, _, _)
\* the loop after createReplayGroup_ for tiles[i] ended with outcome o
BuildStep(states, rs, tiles, i, rev, order, resolution, c, replayables, builds, o) ==
  IF o.threw
  THEN [rs |-> [rs EXCEPT ![tiles[i]] = o.rs], replayables |-> replayables,
        builds |-> Append(builds, Build(tiles[i], o.built, o.threw, o.deleted)),
        threw |-> TRUE]
  ELSE BuildFrom(states, [rs EXCEPT ![tiles[i]] = o.rs], tiles, i + 1, rev, order,
                 resolution, c, replayables,
                 Append(builds, Build(tiles[i], o.built, o.threw, o.deleted)))

\* the loop listing every selected tile for composeFrame, whatever its state
BuildFromAnyState(states, rs, tiles, i, rev, order, resolution, c, replayables, builds) ==
  IF i > Len(tiles)
  THEN [rs |-> rs, replayables |-> replayables, builds |-> builds, threw |-> FALSE]
  ELSE IF StateOf(states, tiles[i]) = "LOADED"
       THEN BuildStep(states, rs, tiles, i, rev, order, resolution, c,
                      Append(replayables, tiles[i]), builds,
                      CreateReplayGroup(rs[tiles[i]], tiles[i], rev, order,
                                        resolution, c))
       ELSE BuildFrom(states, rs, tiles, i + 1, rev, order, resolution, c,
                      Append(replayables, tiles[i]), builds)

\* the loop building, at its end, the group of every loaded tile, selected
\* for the frame or not
BuildFromEveryLoaded(states, rs, tiles, i, rev, order, resolution, c, replayables, builds) ==
  IF i > Len(tiles)
  THEN [rs |-> [t \in DOMAIN rs |->
                  IF StateOf(states, t) = "LOADED" /\ rs[t].replayGroup.isNull
                  THEN [rs[t] EXCEPT !.replayGroup =
                          RenderFeatures(NewReplayGroup(LayerRenderBuffer),
                                         TileFeatures(t))]
                  ELSE rs[t]],
        replayables |-> replayables, builds |-> builds, threw |-> FALSE]
  ELSE IF StateOf(states, tiles[i]) = "LOADED"
       THEN BuildStep(states, rs, tiles, i, rev, order, resolution, c,
                      Append(replayables, tiles[i]), builds,
                      CreateReplayGroup(rs[tiles[i]], tiles[i], rev, order,
                                        resolution, c))
       ELSE BuildFrom(states, rs, tiles, i + 1, rev, order, resolution, c,
                      replayables, builds)

BuildFrom(states, rs, tiles, i, rev, order, resolution, c, replayables, builds) ==
  IF i > Len(tiles)
  THEN [rs |-> rs, replayables |-> replayables, builds |-> builds, threw |-> FALSE]
  ELSE IF StateOf(states, tiles[i]) = "LOADED"
       THEN BuildStep(states, rs, tiles, i, rev, order, resolution, c,
                      Append(replayables, tiles[i]), builds,
                      CreateReplayGroup(rs[tiles[i]], tiles[i], rev, order,
                                        resolution, c))
       ELSE BuildFrom(states, rs, tiles, i + 1, rev, order, resolution, c,
                      replayables, builds)

\* the record of a renderer operation
Frame(op, ret, extent, resolution, tileRange, interim, byZ, builds, calls) ==
  [op |-> op, ret |-> ret, extent |-> extent, resolution |-> resolution,
   tileRange |-> tileRange, interim |-> interim, byZ |-> byZ, builds |-> builds,
   calls |-> calls]

NoFrame(op, ret) ==
  Frame(op, ret, <<>>, 0, <<>>, FALSE, NewTilesToDraw(0), <<>>, <<>>)

\* the extent prepareFrame works on: the frame's extent, cut to the layer's
\* extent when the layer has one (<<>>: it has none)
VisibleExtent(frameExtent, layerExtent) ==
  IF layerExtent # <<>> THEN GetIntersection(frameExtent, layerExtent)
  ELSE frameExtent

\* the view hints of a frame and the layer's update settings
Hints(animating, interacting, updateWhileAnimating, updateWhileInteracting) ==
  [animating |-> animating, interacting |-> interacting,
   updateWhileAnimating |-> updateWhileAnimating,
   updateWhileInteracting |-> updateWhileInteracting]

\* the condition of prepareFrame's shortcut, with JavaScript's precedence
Throttled(dirty, h) ==
  \/ (~dirty /\ (~h.updateWhileAnimating /\ h.animating))
  \/ (~h.updateWhileInteracting /\ h.interacting)


(***************************************************************************)
(* Spec: the renderer over the tiles of a source whose tiles load          *)
(* asynchronously, a layer whose revision and render order change, and     *)
(* frames whose parameters are drawn from the sets below.                  *)
(***************************************************************************)
ViewResolutions == {1, 2}
FrameExtents == {<<0, 2>>}
LayerExtents == {<<>>, <<3, 4>>}
FrameHints == {Hints(FALSE, FALSE, FALSE, FALSE), Hints(TRUE, FALSE, FALSE, FALSE),
               Hints(FALSE, TRUE, FALSE, TRUE)}
\* the tiles whose replay state is marked dirty from outside the renderer
DirtyTiles == {<<2, 0>>, <<2, 1>>}
\* the tiles seen while their load is under way; the load of every other tile
\* is seen only once it has ended
LoadingTiles == {<<2, 1>>}
\* the render orders the layer is given after construction (it starts with
\* none)
RenderOrders == {"byUid"}
\* the states in which the load of a tile can end
LoadOutcomes(t) ==
  CASE t = <<0, 0>> -> {"LOADED"}
    [] t = <<1, 0>> -> {"LOADED"}
    [] t = <<2, 0>> -> {"LOADED"}
    [] t = <<2, 1>> -> {"LOADED", "ERROR", "EMPTY"}

Init ==
  /\ ctx \in {c \in Contexts : ~c.hasOES}
  /\ IdleLayer
  /\ gl = InitGL
  /\ group = NullGroup
  /\ added = <<>>
  /\ tileState = [t \in Tiles |-> "IDLE"]
  /\ replayState = [t \in Tiles |-> InitReplayState]
  /\ renderedTiles_ = <<>>
  /\ dirty_ = FALSE
  /\ revision = 0
  /\ renderOrder = "null"
  /\ last = NoFrame("new", "none")

\* prepareFrame taking the shortcut and forgetting the tile list
PrepareFrameThrottledClearing(h) ==
  /\ Throttled(dirty_, h)
  /\ last' = NoFrame("prepareFrame", "throttled")
  /\ renderedTiles_' = <<>>
  /\ UNCHANGED <<layer, stack, ctx, gl, group, added, tileState, replayState, dirty_, revision, renderOrder>>

\* prepareFrame taking the animation / interaction shortcut
PrepareFrameThrottled(h) ==
  /\ Throttled(dirty_, h)
  /\ last' = NoFrame("prepareFrame", "throttled")
  /\ UNCHANGED <<layer, stack, ctx, gl, group, added>>
  /\ UNCHANGED rendererVars

\* prepareFrame of a layer that is not in view
PrepareFrameNotInView(frameExtent, layerExtent) ==
  /\ \E h \in FrameHints : ~Throttled(dirty_, h)
  /\ IsEmptyExtent(VisibleExtent(frameExtent, layerExtent))
  /\ last' = Frame("prepareFrame", "false", VisibleExtent(frameExtent, layerExtent),
                   0, <<>>, FALSE, NewTilesToDraw(0), <<>>, <<>>)
  /\ UNCHANGED <<layer, stack, ctx, gl, group, added>>
  /\ UNCHANGED rendererVars

\* renderFeature returned true for a feature of a tile the pass built: the
\* feature has styles and their image is still loading
SawLoadingImage(builds, imageLoading) ==
  /\ imageLoading
  /\ \E i \in DOMAIN builds :
       /\ builds[i].built \/ builds[i].threw
       /\ \E j \in DOMAIN TileFeatures(builds[i].tile) :
            ResolveStyles(TileFeatures(builds[i].tile)[j]) # <<>>

\* prepareFrame selecting tiles and building their replay groups;
\* imageLoading: the images of the styles are still loading
PrepareFrameWith(frameExtent, layerExtent, resolution, useInterimTilesOnError, imageLoading) ==
  /\ \E h \in FrameHints : ~Throttled(dirty_, h)
  /\ ~IsEmptyExtent(VisibleExtent(frameExtent, layerExtent))
  /\ \E tileRange \in {GetTileRangeForExtentAndZ(
                          VisibleExtent(frameExtent, layerExtent),
                          ZoomForResolution(resolution))} :
     \E byZ \in {SelectTiles(tileState, ZoomForResolution(resolution), tileRange,
                            useInterimTilesOnError)} :
     \E o \in {BuildFrom(tileState, replayState, TilesInOrder(byZ), 1, revision,
                         renderOrder, resolution, ctx, <<>>, <<>>)} :
        /\ replayState' = o.rs
        /\ renderedTiles_' = IF o.threw THEN renderedTiles_ ELSE o.replayables
        /\ last' = Frame("prepareFrame", IF o.threw THEN "threw" ELSE "true",
                         VisibleExtent(frameExtent, layerExtent), resolution,
                         tileRange, useInterimTilesOnError, byZ, o.builds, <<>>)
        /\ dirty_' = SawLoadingImage(o.builds, imageLoading)
  /\ UNCHANGED <<layer, stack, ctx, gl, group, added, tileState, revision, renderOrder>>

\* prepareFrame of a layer whose styles have no image that is loading
PrepareFrame(frameExtent, layerExtent, resolution, useInterimTilesOnError) ==
  PrepareFrameWith(frameExtent, layerExtent, resolution, useInterimTilesOnError, FALSE)

\* composeFrame's loop over renderedTiles_ from position i on: an Outcome
\* with the replay states for r
RECURSIVE ComposeFrom(_, _, _, _, _, _)
RECURSIVE ComposeStep(_, _, _, _, _, _)
\* the loop after the replay of the group of renderedTiles_[i] returned o
ComposeStep(rs, c, skipped, i, calls, o) ==
  IF o.threw
  THEN Outcome([rs EXCEPT ![renderedTiles_[i]].replayGroup = o.r], o.gl,
               calls \o o.calls, 0, TRUE)
  ELSE ComposeFrom([rs EXCEPT ![renderedTiles_[i]].replayGroup = o.r], o.gl, c,
                   skipped, i + 1, calls \o o.calls)

\* the loop replaying the group of a tile marked dirty as well
ComposeFromDirtyToo(rs, g, c, skipped, i, calls) ==
  IF i > Len(renderedTiles_) THEN Outcome(rs, g, calls, 0, FALSE)
  ELSE IF ~rs[renderedTiles_[i]].replayGroup.isNull
          /\ ~IsEmpty(rs[renderedTiles_[i]].replayGroup)
       THEN ComposeStep(rs, c, skipped, i,
                        Append(calls, Call("tile", "", renderedTiles_[i][1],
                                           renderedTiles_[i][2], 0)),
                        GroupReplay(rs[renderedTiles_[i]].replayGroup, g, c, skipped))
       ELSE ComposeFrom(rs, g, c, skipped, i + 1, calls)

ComposeFrom(rs, g, c, skipped, i, calls) ==
  IF i > Len(renderedTiles_) THEN Outcome(rs, g, calls, 0, FALSE)
  ELSE LET t == renderedTiles_[i]
           replayGroup == rs[t].replayGroup
       IN IF ~replayGroup.isNull /\ ~IsEmpty(replayGroup) /\ ~rs[t].dirty
          THEN ComposeStep(rs, c, skipped, i,
                           Append(calls, Call("tile", "", t[1], t[2], 0)),
                           GroupReplay(replayGroup, g, c, skipped))
          ELSE ComposeFrom(rs, g, c, skipped, i + 1, calls)

\* composeFrame(frameState, layerState, context)
ComposeFrame(managed, skippedFeatureUids) ==
  /\ \E o \in {ComposeFrom(replayState, gl, ctx,
                           IF managed THEN skippedFeatureUids ELSE {}, 1, <<>>)} :
        /\ replayState' = o.r
        /\ gl' = o.gl
        /\ last' = Frame("composeFrame", IF o.threw THEN "threw" ELSE "none",
                         <<>>, 0, <<>>, FALSE, NewTilesToDraw(0), <<>>, o.calls)
  /\ UNCHANGED <<layer, stack, ctx, group, added, tileState, renderedTiles_, dirty_,
                 revision, renderOrder>>

\* the tile queue starts loading a tile
StartLoad(t) ==
  /\ t \in LoadingTiles
  /\ tileState[t] = "IDLE"
  /\ tileState' = [tileState EXCEPT ![t] = "LOADING"]
  /\ last' = NoFrame("env", "none")
  /\ UNCHANGED <<layer, stack, ctx, gl, group, added, replayState, renderedTiles_, dirty_,
                 revision, renderOrder>>

\* a load ends: with features, with an error, or with no content
EndLoad(t, state) ==
  /\ tileState[t] = IF t \in LoadingTiles THEN "LOADING" ELSE "IDLE"
  /\ state \in LoadOutcomes(t)
  /\ tileState' = [tileState EXCEPT ![t] = state]
  /\ last' = NoFrame("env", "none")
  /\ UNCHANGED <<layer, stack, ctx, gl, group, added, replayState, renderedTiles_, dirty_,
                 revision, renderOrder>>

\* layer.changed()
LayerChanged ==
  /\ revision < MaxRevision
  /\ revision' = revision + 1
  /\ last' = NoFrame("env", "none")
  /\ UNCHANGED <<layer, stack, ctx, gl, group, added, tileState, replayState, renderedTiles_,
                 dirty_, renderOrder>>

\* layer.setRenderOrder(order), which also bumps the revision
SetRenderOrder(order) ==
  /\ revision < MaxRevision
  /\ order # renderOrder
  /\ renderOrder' = order
  /\ revision' = revision + 1
  /\ last' = NoFrame("env", "none")
  /\ UNCHANGED <<layer, stack, ctx, gl, group, added, tileState, replayState, renderedTiles_,
                 dirty_>>

\* the tile is loaded and has been built, and is not marked dirty
Markable(t) ==
  /\ t \in DirtyTiles
  /\ tileState[t] = "LOADED"
  /\ ~replayState[t].dirty
  /\ ~replayState[t].replayGroup.isNull

\* a later change of style or data marks the replay states dirty: those of
\* all the tiles it can be seen on
MarkDirty ==
  /\ \E t \in DirtyTiles : Markable(t)
  /\ replayState' = [t \in Tiles |->
                       IF Markable(t) THEN [replayState[t] EXCEPT !.dirty = TRUE]
                       ELSE replayState[t]]
  /\ last' = NoFrame("env", "none")
  /\ UNCHANGED <<layer, stack, ctx, gl, group, added, tileState, renderedTiles_, dirty_,
                 revision, renderOrder>>

Next ==
  \/ \E h \in FrameHints : PrepareFrameThrottled(h)
  \/ \E e \in FrameExtents, le \in LayerExtents : PrepareFrameNotInView(e, le)
  \/ \E e \in FrameExtents, le \in LayerExtents, res \in ViewResolutions,
        interim \in BOOLEAN :
       PrepareFrame(e, le, res, interim)
  \/ \E managed \in BOOLEAN : ComposeFrame(managed, {1})
  \/ \E t \in Tiles : StartLoad(t)
  \/ \E t \in Tiles, state \in TileStates : EndLoad(t, state)
  \/ LayerChanged
  \/ \E order \in RenderOrders : SetRenderOrder(order)
  \/ MarkDirty

Spec == Init /\ [][Next]_vars

(***************************************************************************)
(* SpecZoom: prepareFrame's choice of the zoom level, for every tile grid  *)
(* whose resolutions descend strictly within 1..MaxResolution and every    *)
(* view resolution from 1 to MaxResolution + 1.                            *)
(***************************************************************************)
\* the members of a set of numbers in descending order
RECURSIVE Descending(_)
Descending(S) ==
  IF S = {} THEN <<>> ELSE <<Max(S)>> \o Descending(S \ {Max(S)})

ResolutionTables == {Descending(S) : S \in (SUBSET (1..MaxResolution)) \ {{}}}

InitZoom ==
  /\ ctx = [hasOES |-> FALSE, asserts |-> FALSE]
  /\ gl = InitGL
  /\ group = NullGroup
  /\ added = <<>>
  /\ last = [op |-> "new", resolutions |-> <<>>, resolution |-> 0, z |-> 0]
  /\ InitRenderer

\* the zoom search of a prepareFrame over a grid with these resolutions at
\* this view resolution
ChooseZoom(resolutions, resolution) ==
  /\ last' = [op |-> "zoom", resolutions |-> resolutions, resolution |-> resolution,
              z |-> ZoomDownIn(resolutions, Len(resolutions) - 1, resolution)]
  /\ UNCHANGED <<layer, stack, ctx, gl, group, added>>
  /\ UNCHANGED rendererVars

NextZoom ==
  \E resolutions \in ResolutionTables, resolution \in 1..(MaxResolution + 1) :
    ChooseZoom(resolutions, resolution)

SpecZoom == InitZoom /\ [][NextZoom]_vars

(***************************************************************************)
(* SpecDraw: one replay of a group driven directly through its             *)
(* VectorContext methods: setFillStrokeStyle and the draw methods in any   *)
(* order, then finish and replay.  last.calls is the log of the calls made *)
(* to the replay since it was constructed.                                 *)
(***************************************************************************)
MaxStyleCalls == 2

StyleCalls(log) ==
  LET isStyle(c) == c.op = "setFillStrokeStyle" IN SelectSeq(log, isStyle)

InitDraw ==
  /\ ctx \in {c \in Contexts : c.hasOES}
  /\ gl = InitGL
  /\ group \in {GetReplay(NewReplayGroup(<<>>), k) :
                  k \in {"Point", "LineString", "Polygon"}}
  /\ added = <<>>
  /\ last = Did("new", NoParams, <<>>, 0, FALSE, FALSE, FALSE)
  /\ InitRenderer

\* replay.setFillStrokeStyle(fillStyle, strokeStyle); the Polygon replay
\* asserts first that one of the two is given
SetFillStrokeStyle(k, fillStyle, strokeStyle) ==
  /\ group.finishCalls = 0
  /\ k \in DOMAIN group.replays_
  /\ Len(StyleCalls(last.calls)) < MaxStyleCalls
  /\ LET threw == k = "Polygon" /\ ctx.asserts
                    /\ fillStyle.isNull /\ strokeStyle.isNull
         r == group.replays_[k]
     IN /\ group' =
             IF threw THEN group
             ELSE SetReplay(group, k,
                    CASE k = "Point" -> PointSetFillStrokeStyle(r, fillStyle, strokeStyle)
                      [] k = "LineString" -> LineSetFillStrokeStyle(r, fillStyle, strokeStyle)
                      [] k = "Polygon" -> PolySetFillStrokeStyle(r, fillStyle, strokeStyle))
        /\ last' = Did("setFillStrokeStyle", NoParams,
                       Append(last.calls,
                              Call("setFillStrokeStyle", k,
                                   IF fillStyle.isNull THEN 0 ELSE 1,
                                   IF strokeStyle.isNull THEN 0 ELSE 1, 0)),
                       0, threw, FALSE, FALSE)
  /\ UNCHANGED <<layer, stack, ctx, gl, added>>
  /\ UNCHANGED rendererVars

\* a draw method called with the feature's geometry and the feature; r1 is
\* the replay afterwards
DrawStep(op, k, f, r1) ==
  /\ group' = SetReplay(group, k, r1)
  /\ added' = Append(added, f.uid)
  /\ last' = Did(op, NoParams, Append(last.calls, Call(op, k, 0, 0, f.uid)),
                 0, FALSE, FALSE, FALSE)
  /\ UNCHANGED <<layer, stack, ctx, gl>>
  /\ UNCHANGED rendererVars

CanDraw(k, type, f) ==
  /\ group.finishCalls = 0
  /\ k \in DOMAIN group.replays_
  /\ f.type = type
  /\ Len(added) < MaxFeatures
  /\ f.uid \notin Range(added)

DrawPoint(f) ==
  /\ CanDraw("Point", "Point", f)
  /\ DrawStep("drawPoint", "Point", f, PointDrawPoint(group.replays_["Point"], f))

DrawMultiPoint(f) ==
  /\ CanDraw("Point", "MultiPoint", f)
  /\ DrawStep("drawMultiPoint", "Point", f,
              PointDrawMultiPoint(group.replays_["Point"], f))

\* lines are drawn once a stroke style was set, as the renderer does
DrawLineString(f) ==
  /\ CanDraw("LineString", "LineString", f)
  /\ group.replays_["LineString"].strokeColor_ # NullColor
  /\ DrawStep("drawLineString", "LineString", f,
              LineDrawLineString(group.replays_["LineString"], f))

DrawPolygon(f) ==
  /\ CanDraw("Polygon", "Polygon", f)
  /\ DrawStep("drawPolygon", "Polygon", f,
              PolyDrawPolygon(group.replays_["Polygon"], f))

DrawMultiPolygon(f) ==
  /\ CanDraw("Polygon", "MultiPolygon", f)
  /\ DrawStep("drawMultiPolygon", "Polygon", f,
              PolyDrawMultiPolygon(group.replays_["Polygon"], f))

StyleChoices == {NoStyle, ColorStyle(Red)}

NextDraw ==
  \/ \E k \in {"Point", "LineString", "Polygon"},
        fillStyle \in StyleChoices, strokeStyle \in StyleChoices :
       SetFillStrokeStyle(k, fillStyle, strokeStyle)
  \/ \E f \in DrawCatalog : DrawPoint(f)
  \/ \E f \in DrawCatalog : DrawMultiPoint(f)
  \/ \E f \in DrawCatalog : DrawLineString(f)
  \/ \E f \in DrawCatalog : DrawPolygon(f)
  \/ \E f \in DrawCatalog : DrawMultiPolygon(f)
  \/ Finish
  \/ \E skipped \in {{}, {4}} : Replay(skipped)

SpecDraw == InitDraw /\ [][NextDraw]_vars


(***************************************************************************)
(* Vocabulary of the properties of Spec.                                   *)
(***************************************************************************)
\* a prepareFrame that reached tile selection
Selecting(l) == l.op = "prepareFrame" /\ l.ret \in {"true", "threw"}

SelectedTiles(byZ) == UNION {Range(byZ.at[i]) : i \in 1..Len(byZ.at)}

\* the cells of the finest zoom (one unit wide) an extent takes
Cells(e) == {x \in 0..(Resolutions[1] - 1) : e[1] <= x /\ x < e[2]}

CoveredCells(byZ) == UNION {Cells(TileExtent(t)) : t \in SelectedTiles(byZ)}

\* the tiles of the visible range at the target zoom
TargetTiles(l) ==
  {<<ZoomForResolution(l.resolution), x>> : x \in l.tileRange[1]..l.tileRange[2]}

\* the tile has data to show for its footprint: itself, a loaded ancestor,
\* or all its children loaded
Available(t, interim) ==
  \/ Drawable(StateOf(tileState, t), interim)
  \/ \E z \in MinZoom..(t[1] - 1) :
       StateOf(tileState, <<z, ParentTileRange(t, z)[1]>>) = "LOADED"
  \/ /\ t[1] < MaxZoom
     /\ \A x \in {2 * t[2], 2 * t[2] + 1} :
          StateOf(tileState, <<t[1] + 1, x>>) = "LOADED"

SortedByZoom(tiles) ==
  \A i, j \in 1..Len(tiles) : i < j => tiles[i][1] <= tiles[j][1]

\* the tiles a composeFrame log replays, in order
RECURSIVE TileCalls(_)
TileCalls(calls) ==
  IF calls = <<>> THEN <<>>
  ELSE IF Head(calls).op = "tile"
       THEN << <<Head(calls).a, Head(calls).b>> >> \o TileCalls(Tail(calls))
       ELSE TileCalls(Tail(calls))

\* composeFrame's condition for replaying a tile
Replayable(t) ==
  /\ ~replayState[t].replayGroup.isNull
  /\ ~IsEmpty(replayState[t].replayGroup)
  /\ ~replayState[t].dirty

\* the feature resolves to a style that makes it append geometry
Appends(f) ==
  /\ ResolveStyles(f) # <<>>
  /\ Draws(f, ResolveStyles(f)[1])

(***************************************************************************)
(* Properties of Spec.                                                     *)
(***************************************************************************)

\* C1: a prepareFrame leaves the replay state of every loaded tile it
\* selects untouched when the cached group is current, and otherwise
\* replaces it by a group built from all the tile's features and finished
\* once, with dirty false and the stamps equal to the current revision,
\* render order and resolution.
C1_RebuildIffStale ==
  [][Selecting(last') =>
       \A t \in SelectedTiles(last'.byZ) :
         tileState[t] = "LOADED" =>
           IF Fresh(replayState[t], revision, renderOrder, last'.resolution)
           THEN replayState'[t] = replayState[t]
           ELSE /\ Fresh(replayState'[t], revision, renderOrder, last'.resolution)
                /\ ~replayState'[t].replayGroup.isNull
                /\ replayState'[t].replayGroup.finishCalls = 1
                /\ \A i \in 1..Len(TileFeatures(t)) :
                     Appends(TileFeatures(t)[i]) =>
                       ReplayTypeOf(TileFeatures(t)[i])
                         \in DOMAIN replayState'[t].replayGroup.replays_]_vars

C3_ZoomOrder ==
  /\ SortedByZoom(renderedTiles_)
  /\ last.op = "composeFrame" =>
       /\ IsPrefix(TileCalls(last.calls), SelectSeq(renderedTiles_, Replayable))
       /\ last.ret # "threw" =>
            TileCalls(last.calls) = SelectSeq(renderedTiles_, Replayable)

C3_Witness ==
  /\ last.op = "composeFrame"
  /\ Len(TileCalls(last.calls)) >= 2
  /\ \E i, j \in 1..Len(renderedTiles_) :
       renderedTiles_[i][1] < renderedTiles_[j][1]

\* C9: every replay group a tile holds was finished exactly once, after
\* all its geometry was appended, and composeFrame never replays a replay
\* whose buffers finish has not created.
C9_FinishOnceBeforeReplay ==
  /\ \A t \in Tiles :
       ~replayState[t].replayGroup.isNull =>
         /\ replayState[t].replayGroup.finishCalls = 1
         /\ replayState[t].replayGroup.lateAdds = 0
         /\ Finished(replayState[t].replayGroup)
  /\ last.op = "composeFrame" =>
       /\ last.ret # "threw"
       /\ \A i \in 1..Len(last.calls) : last.calls[i].op # "unfinished"

C9_Witness ==
  /\ last.op = "composeFrame"
  /\ \E i \in 1..Len(last.calls) : last.calls[i].op \in DrawOps
  /\ \E t \in Tiles : replayState[t].replayGroup.finishCalls = 1

\* C12: on a finished ReplayGroup, getDeleteResourcesFunction deletes no
\* buffer itself and raises no error; the function it returns, when invoked,
\* deletes every buffer of every owned replay exactly once (a Polygon
\* replay's vertex and index buffers and its nested LineString replay's
\* vertex buffer, a LineString replay's vertex buffer, a Point replay's
\* vertex buffer), each of them an existing buffer, and issues no other call.
C12_DeleterDeletesEachBufferOnce ==
  (last.op = "deleteResources" /\ Finished(group)) =>
    /\ ~last.threw
    /\ last.calls # <<>> /\ last.calls[1].op = "invoke"
    /\ \A name \in GroupBuffers(group) :
         /\ Cardinality(DeletionsOf(last.calls, name)) = 1
         /\ \A i \in DeletionsOf(last.calls, name) : last.calls[i].b = 0
    /\ Len(last.calls) = 1 + Cardinality(GroupBuffers(group))

\* a finished group owning a Polygon replay with an outline and a Point
\* replay had its delete function obtained and invoked
C12_Witness ==
  /\ last.op = "deleteResources" /\ Finished(group)
  /\ {"Polygon", "Point"} \subseteq DOMAIN group.replays_
  /\ group.replays_["Polygon"].lineStringReplay_.verticesBuffer_.n > 0
  /\ Len(last.calls) >= 5

\* C11: whenever createReplayGroup_ replaces a tile's stale ReplayGroup,
\* every buffer the replays of the previous group own is deleted: the build
\* issues one deleteBuffer call for each of them.
C11_ReplacedGroupReleased ==
  [][last'.op = "prepareFrame" =>
       \A i \in DOMAIN last'.builds :
         (last'.builds[i].built
            /\ ~replayState[last'.builds[i].tile].replayGroup.isNull) =>
           \A name \in GroupBuffers(replayState[last'.builds[i].tile].replayGroup) :
             DeletionsOf(last'.builds[i].deleted, name) # {}]_vars

\* C13: when the build of one tile's ReplayGroup fails during a prepareFrame,
\* every other loaded tile the frame selected is still processed (its
\* createReplayGroup_ call is made) and renderedTiles_ holds it afterwards.
C13_FailureDoesNotAbortSiblings ==
  (last.op = "prepareFrame"
     /\ \E i \in DOMAIN last.builds : last.builds[i].threw) =>
    \A t \in SelectedTiles(last.byZ) :
      (/\ tileState[t] = "LOADED"
       /\ \A i \in DOMAIN last.builds :
            last.builds[i].threw => last.builds[i].tile # t) =>
        /\ \E i \in DOMAIN last.builds : last.builds[i].tile = t
        /\ t \in Range(renderedTiles_)

(***************************************************************************)
(* Properties of SpecBatch.                                                *)
(***************************************************************************)

\* C14: without wide-index support, finish on a Polygon replay whose index
\* list holds an element index of 2^16 or more, at whatever position,
\* raises an error and creates no index buffer.
C14_IndexOverflowReported ==
  (/\ last.op = "finish"
   /\ ~ctx.hasOES
   /\ "Polygon" \in DOMAIN group.replays_
   /\ \E i \in DOMAIN group.replays_["Polygon"].indices_ :
        group.replays_["Polygon"].indices_[i] >= IndexLimit16) =>
    /\ last.threw
    /\ group.replays_["Polygon"].indicesBuffer_.isNull

\* the polygon features added so far, in insertion order
AddedPolygons ==
  LET keep(u) == FeatureByUid(u).type = "Polygon" IN SelectSeq(added, keep)

C16_FalseIffNotInView ==
  last.op = "prepareFrame" =>
    /\ last.ret = "false" <=>
         (last.ret # "throttled" /\ last.extent # <<>> /\ IsEmptyExtent(last.extent))
    /\ last.ret = "false" => (SelectedTiles(last.byZ) = {} /\ last.builds = <<>>)
    /\ last.ret # "false" => last.ret \in {"true", "throttled"}

\* the loaded ancestor of a tile nearest to it, as a set (empty: none)
NearestLoadedAncestor(t) ==
  {<<z, ParentTileRange(t, z)[1]>> : z \in
     {z \in MinZoom..(t[1] - 1) :
        /\ tileState[<<z, ParentTileRange(t, z)[1]>>] = "LOADED"
        /\ \A y \in (z + 1)..(t[1] - 1) :
             tileState[<<y, ParentTileRange(t, y)[1]>>] # "LOADED"}}

\* the loaded tiles of the next zoom under a tile
LoadedChildren(t) ==
  {c \in Tiles : c[1] = t[1] + 1 /\ c[2] \in {2 * t[2], 2 * t[2] + 1}
                   /\ tileState[c] = "LOADED"}

\* C17: prepareFrame records a tile of the visible range at the target zoom
\* exactly when its state is Loaded, Empty, or Error with interim-tile
\* substitution disabled; for a tile that is Idle, Loading, or Error with
\* substitution enabled it runs the substitution search instead: the nearest
\* loaded ancestor is selected, or else the loaded tiles of the next zoom.
C17_DirectIffDrawable ==
  Selecting(last) =>
    \A t \in TargetTiles(last) :
      /\ t \in Range(last.byZ.at[t[1] + 1]) <=>
           \/ tileState[t] \in {"LOADED", "EMPTY"}
           \/ (tileState[t] = "ERROR" /\ ~last.interim)
      /\ (\/ tileState[t] \in {"IDLE", "LOADING"}
          \/ (tileState[t] = "ERROR" /\ last.interim)) =>
           /\ t \notin SelectedTiles(last.byZ)
           /\ NearestLoadedAncestor(t) \subseteq SelectedTiles(last.byZ)
           /\ NearestLoadedAncestor(t) = {} =>
                LoadedChildren(t) \subseteq SelectedTiles(last.byZ)

\* a frame met a tile in error with substitution enabled and selected its
\* loaded ancestor
C17_Witness ==
  /\ Selecting(last)
  /\ \E t \in TargetTiles(last) :
       /\ tileState[t] = "ERROR"
       /\ last.interim
       /\ NearestLoadedAncestor(t) # {}
       /\ NearestLoadedAncestor(t) \subseteq SelectedTiles(last.byZ)

\* a replay state without the shader locations its replays cache
FinalizedState(rs) ==
  [rs EXCEPT !.replayGroup.replays_ = ReplayData(rs.replayGroup)]

C19_LoadsDoNotDrawOrBuild ==
  [][/\ tileState' # tileState =>
          /\ replayState' = replayState
          /\ renderedTiles_' = renderedTiles_
          /\ gl' = gl
          /\ last'.builds = <<>> /\ last'.calls = <<>>
     /\ \A t \in Tiles :
          replayState'[t].replayGroup.isNull # replayState[t].replayGroup.isNull
          \/ ReplayData(replayState'[t].replayGroup)
               # ReplayData(replayState[t].replayGroup) =>
            /\ last'.op = "prepareFrame"
            /\ t \in SelectedTiles(last'.byZ)
            /\ tileState[t] = "LOADED"
     /\ renderedTiles_' # renderedTiles_ =>
          /\ last'.op = "prepareFrame" /\ last'.ret = "true"
          /\ \A t \in Range(renderedTiles_') :
               t \in SelectedTiles(last'.byZ) /\ tileState[t] = "LOADED"
     /\ last'.op = "composeFrame" =>
          Range(TileCalls(last'.calls)) \subseteq Range(renderedTiles_)]_vars

\* a tile finished loading after the last prepareFrame: it has no
\* ReplayGroup and the composeFrame that followed replayed other tiles only
C19_Witness ==
  /\ last.op = "composeFrame"
  /\ TileCalls(last.calls) # <<>>
  /\ \E t \in Tiles :
       /\ tileState[t] = "LOADED"
       /\ replayState[t].replayGroup.isNull
       /\ t \notin Range(renderedTiles_)

\* C20: a ReplayGroup creates the replay of a kind at the first getReplay
\* for that kind and hands out the same replay afterwards: each kind was
\* created once, the Polygon replay holds every filled polygon added so far,
\* and a replay once created stays; isEmpty() is true exactly when getReplay
\* was never called (no added feature reached a replay), and once false it
\* never becomes true again.
C20_OneReplayPerKind ==
  /\ [](/\ IsEmpty(group) <=>
            \A i \in DOMAIN added : ~Appends(FeatureByUid(added[i]))
        /\ Range(group.keys_) = DOMAIN group.replays_
        /\ Len(group.keys_) = Cardinality(DOMAIN group.replays_)
        /\ \A i \in DOMAIN added :
             Appends(FeatureByUid(added[i])) =>
               ReplayTypeOf(FeatureByUid(added[i])) \in DOMAIN group.replays_
        /\ "Polygon" \in DOMAIN group.replays_ =>
             group.replays_["Polygon"].features_ = AddedOf("Polygon"))
  /\ [][/\ DOMAIN group.replays_ \subseteq DOMAIN group'.replays_
        /\ ~IsEmpty(group) => ~IsEmpty(group')]_vars

\* two filled polygons went through getReplay("Polygon")
C20_Witness ==
  /\ DOMAIN group.replays_ = {"Polygon"}
  /\ Len(group.replays_["Polygon"].features_) = 2
  /\ Len(added) = 2

(***************************************************************************)
(* Properties of SpecZoom.                                                 *)
(***************************************************************************)
\* the levels (JavaScript indices) of a table whose resolution is at least
\* the view resolution
LevelsAtLeast(resolutions, resolution) ==
  {z \in 0..(Len(resolutions) - 1) : resolutions[z + 1] >= resolution}

\* C21 as stated: the zoom prepareFrame chooses is the coarsest level (the
\* one of the largest resolution) among the levels whose resolution is at
\* least the view resolution.
C21_CoarsestLevelAtLeast ==
  (last.op = "zoom" /\ LevelsAtLeast(last.resolutions, last.resolution) # {}) =>
    last.z = Min(LevelsAtLeast(last.resolutions, last.resolution))

\* C21 amended: the zoom prepareFrame chooses is the finest level (the one
\* of the smallest resolution, the highest z) among the levels whose
\* resolution is at least the view resolution, and level 0 when the view
\* resolution is above every resolution of the table.
C21_FinestLevelAtLeast ==
  last.op = "zoom" =>
    last.z = IF LevelsAtLeast(last.resolutions, last.resolution) # {}
             THEN Max(LevelsAtLeast(last.resolutions, last.resolution))
             ELSE 0

\* a table of three levels and a view resolution equal to the middle one:
\* the middle level is chosen, with a coarser and a finer level around it
C21_Witness ==
  /\ last.op = "zoom"
  /\ Len(last.resolutions) = 3
  /\ last.resolution = last.resolutions[2]
  /\ last.z = 1

(***************************************************************************)
(* Further properties of Spec.                                             *)
(***************************************************************************)
\* the positions of the finder calls for a tile range of a zoom level
ProbesOf(byZ, z, range) ==
  {i \in DOMAIN byZ.probes : byZ.probes[i] = <<z, range>>}

\* the tiles of the next zoom under a tile
ChildTiles(t) == {c \in Tiles : c[1] = t[1] + 1 /\ c[2] \in {2 * t[2], 2 * t[2] + 1}}

\* C22: for a tile of the visible range that is not drawable, prepareFrame
\* searches the ancestor ranges first (the parent range is probed before
\* anything at the next zoom) and probes the range of the tile's children
\* (where the grid has a next zoom) exactly when no ancestor is loaded; with
\* a loaded ancestor no child is probed or recorded, without one exactly the
\* loaded children are recorded; every recorded tile is recorded under its
\* own zoom level.
C22_ChildrenProbedIffNotCovered ==
  Selecting(last) =>
    /\ \A t \in TargetTiles(last) :
         ~Drawable(tileState[t], last.interim) =>
           /\ ProbesOf(last.byZ, t[1] - 1, ParentTileRange(t, t[1] - 1)) # {}
           /\ \A j \in ProbesOf(last.byZ, t[1] + 1, <<2 * t[2], 2 * t[2] + 1>>) :
                \E i \in ProbesOf(last.byZ, t[1] - 1, ParentTileRange(t, t[1] - 1)) :
                  i < j
           /\ ProbesOf(last.byZ, t[1] + 1, <<2 * t[2], 2 * t[2] + 1>>) # {} <=>
                (NearestLoadedAncestor(t) = {} /\ t[1] < MaxZoom)
           /\ NearestLoadedAncestor(t) # {} =>
                ChildTiles(t) \cap SelectedTiles(last.byZ) = {}
           /\ NearestLoadedAncestor(t) = {} =>
                ChildTiles(t) \cap SelectedTiles(last.byZ) = LoadedChildren(t)
    /\ \A z \in 0..MaxZoom : \A t \in Range(last.byZ.at[z + 1]) : t[1] = z

\* a tile that is not loaded has a loaded ancestor and a loaded child: the
\* ancestor is recorded and the child range is not probed
C22_Witness ==
  /\ Selecting(last)
  /\ \E t \in TargetTiles(last) :
       /\ ~Drawable(tileState[t], last.interim)
       /\ NearestLoadedAncestor(t) # {}
       /\ NearestLoadedAncestor(t) \subseteq SelectedTiles(last.byZ)
       /\ LoadedChildren(t) # {}
       /\ ProbesOf(last.byZ, t[1] + 1, <<2 * t[2], 2 * t[2] + 1>>) = {}

\* C23: after a prepareFrame that ran to its end, renderedTiles_ holds,
\* once each, exactly the tiles the pass selected that are Loaded, each with
\* a non-null finished ReplayGroup; a selected tile that is Empty or in
\* Error has no ReplayGroup and is not in renderedTiles_; and the replay
\* state of a tile the pass did not select is left as it was.
C23_RenderedAreLoadedSelected ==
  [][(last'.op = "prepareFrame" /\ last'.ret = "true") =>
       /\ Range(renderedTiles_') =
            {t \in SelectedTiles(last'.byZ) : tileState[t] = "LOADED"}
       /\ Len(renderedTiles_') = Cardinality(Range(renderedTiles_'))
       /\ \A t \in Range(renderedTiles_') :
            /\ ~replayState'[t].replayGroup.isNull
            /\ Finished(replayState'[t].replayGroup)
       /\ \A t \in SelectedTiles(last'.byZ) :
            tileState[t] \in {"EMPTY", "ERROR"} =>
              /\ replayState'[t].replayGroup.isNull
              /\ t \notin Range(renderedTiles_')
       /\ \A t \in Tiles \ SelectedTiles(last'.byZ) :
            replayState'[t] = replayState[t]]_vars

\* a completed prepareFrame selected a loaded tile and a tile in error, and
\* left a loaded tile out of the selection
C23_Witness ==
  /\ last.op = "prepareFrame" /\ last.ret = "true"
  /\ renderedTiles_ # <<>>
  /\ \E t \in SelectedTiles(last.byZ) : tileState[t] = "ERROR"
  /\ \E t \in Tiles \ SelectedTiles(last.byZ) : tileState[t] = "LOADED"

\* no style function yields a style for any feature of the tile
StyleLess(t) ==
  \A i \in DOMAIN TileFeatures(t) : ResolveStyles(TileFeatures(t)[i]) = <<>>

\* the replay state is not dirty and carries the layer's revision and
\* render order and this resolution
Stamped(rs, resolution) ==
  /\ ~rs.dirty
  /\ rs.renderedRevision = revision
  /\ rs.renderedRenderOrder = renderOrder
  /\ rs.resolution = resolution

\* C24: for a loaded tile none of whose features gets a style, a call of
\* createReplayGroup_ builds exactly when the tile is dirty or one of its
\* three stamps differs from the layer's revision, its render order and the
\* frame's resolution; the build raises no error, stores a non-null group
\* without geometry and leaves dirty false and the stamps current; a call
\* that does not build leaves the replay state as it was; and apart from
\* such a build the replay state changes only by being marked dirty.
C24_StylelessTileBuiltOnce ==
  [][\A t \in Tiles :
       (StyleLess(t) /\ tileState[t] = "LOADED") =>
         /\ \A i \in DOMAIN last'.builds :
              (last'.op = "prepareFrame" /\ last'.builds[i].tile = t) =>
                /\ last'.builds[i].built <=>
                     ~Stamped(replayState[t], last'.resolution)
                /\ ~last'.builds[i].threw
                /\ Stamped(replayState'[t], last'.resolution)
                /\ ~replayState'[t].replayGroup.isNull
                /\ IsEmpty(replayState'[t].replayGroup)
                /\ ~last'.builds[i].built => replayState'[t] = replayState[t]
         /\ replayState'[t] # replayState[t] =>
              \/ replayState'[t] = [replayState[t] EXCEPT !.dirty = TRUE]
              \/ /\ last'.op = "prepareFrame"
                 /\ \E i \in DOMAIN last'.builds :
                      last'.builds[i].tile = t /\ last'.builds[i].built]_vars

\* a prepareFrame selected a loaded tile without styles whose empty group
\* was current, and did not build it again
C24_Witness ==
  /\ last.op = "prepareFrame"
  /\ \E i \in DOMAIN last.builds :
       /\ StyleLess(last.builds[i].tile)
       /\ ~last.builds[i].built
       /\ ~replayState[last.builds[i].tile].replayGroup.isNull
       /\ IsEmpty(replayState[last.builds[i].tile].replayGroup)

(***************************************************************************)
(* Further properties of SpecBatch.                                        *)
(***************************************************************************)
\* the vertex records a group holds for the fill of a replay type
FillVertices(g, replayType) ==
  IF replayType \notin DOMAIN g.replays_ THEN <<>>
  ELSE IF replayType = "Point" THEN g.replays_[replayType].vertexAttributes_
  ELSE g.replays_[replayType].vertices_

\* the vertex records after are those before and at least one more, every
\* added one in the colour
AppendedIn(before, after, colour) ==
  /\ Len(after) > Len(before)
  /\ \A i \in (Len(before) + 1)..Len(after) : after[i].c = colour

\* what adding the feature to group g has to do when its style function
\* yields the styles: g1 is the group afterwards, calls the style functions
\* called
StyledAs(f, styles, g, g1, calls) ==
  /\ calls = <<Call("styleFunction", IF f.hasFn THEN "feature" ELSE "layer",
                    0, 0, f.uid)>>
  /\ styles = <<>> => g1 = g
  /\ (styles # <<>> /\ ~styles[1].fill.isNull) =>
       AppendedIn(FillVertices(g, ReplayTypeOf(f)), FillVertices(g1, ReplayTypeOf(f)),
                  NormalizeColor(styles[1].fill.color))

\* the styles of the style function the closure has to call for the feature
OwnOrLayerStyles(f) == IF f.hasFn THEN f.fnStyles ELSE f.layerStyles

\* C25: the renderFeature closure calls one style function per feature: the
\* feature's own when it has one, the layer's otherwise and only then; a
\* feature for which the function called yields no style leaves the group
\* as it was, also when the layer's function would yield one; a point or
\* polygon for which it yields a fill has vertices appended, every one in
\* the colour of that fill.
C25_FeatureStyleFirst ==
  [][last'.op = "add" =>
       \E f \in {FeatureByUid(added'[Len(added')])} :
         StyledAs(f, OwnOrLayerStyles(f), group, group', last'.calls)]_vars

\* a point whose own function yields a blue fill and a point whose own
\* function yields nothing were added: the group holds the blue point only
C25_Witness ==
  /\ {Bare.uid, OwnPt.uid} \subseteq Range(added)
  /\ "Point" \in DOMAIN group.replays_
  /\ Len(group.replays_["Point"].vertexAttributes_) = 1
  /\ group.replays_["Point"].vertexAttributes_[1].c = NormalizeColor(Blue)

(***************************************************************************)
(* Further properties of SpecReplay.                                       *)
(***************************************************************************)
\* C26: in a Polygon replay the per-feature arrays stay aligned after every
\* drawPolygon and drawMultiPolygon: startIndices_, endIndices_ and
\* features_ have the same length, features_ lists the filled polygons and
\* multi-polygons in insertion order, entry i of the three arrays is one
\* feature's range with startIndices_[i] <= endIndices_[i] <=
\* indices_.length, and the ranges of successive features do not overlap.
C26_PerFeatureArraysAligned ==
  "Polygon" \in DOMAIN group.replays_ =>
    LET r == group.replays_["Polygon"] IN
    /\ Len(r.startIndices_) = Len(r.features_)
    /\ Len(r.endIndices_) = Len(r.features_)
    /\ r.features_ = AddedOf("Polygon")
    /\ \A i \in DOMAIN r.features_ :
         /\ r.startIndices_[i] <= r.endIndices_[i]
         /\ r.endIndices_[i] <= Len(r.indices_)
         /\ r.endIndices_[i] - r.startIndices_[i] = IndexCount(r.features_[i])
    /\ \A i, j \in DOMAIN r.features_ :
         i < j => r.endIndices_[i] <= r.startIndices_[j]

\* the polygons (lists of rings) of a polygon or multi-polygon feature
PolygonsOf(uid) ==
  LET f == FeatureByUid(uid) IN
  IF f.type = "MultiPolygon" THEN f.coords ELSE <<f.coords>>

\* the number of vertices the triangulations of the feature's polygons have
VertexCount(uid) ==
  Len(Concat([i \in 1..Len(PolygonsOf(uid)) |->
                Earcut(PolygonsOf(uid)[i]).vertices]))

RECURSIVE OwnVertexStart(_, _)
\* the number of vertices in the buffer before the feature was added
OwnVertexStart(uids, uid) ==
  IF uids = <<>> \/ Head(uids) = uid THEN 0
  ELSE VertexCount(Head(uids)) + OwnVertexStart(Tail(uids), uid)

RECURSIVE SharedIndices(_, _)
\* the triangulator's local indices of the polygons, each polygon's shifted
\* by the number of vertices before it
SharedIndices(polygons, offset) ==
  IF polygons = <<>> THEN <<>>
  ELSE LET t == Earcut(Head(polygons)) IN
       [k \in 1..Len(t.indices) |-> t.indices[k] + offset]
         \o SharedIndices(Tail(polygons), offset + Len(t.vertices))

\* C27: in a Polygon replay shared by several features every stored element
\* index is the triangulator's local index plus the number of vertices in
\* the buffer before that polygon was added; so every index is smaller than
\* the number of vertices, and the indices of a feature address only the
\* vertices that feature added.
C27_IndicesOffsetByVertexCount ==
  "Polygon" \in DOMAIN group.replays_ =>
    LET r == group.replays_["Polygon"]
        uids == AddedOf("Polygon")
    IN /\ r.indices_ =
            SharedIndices(Concat([i \in 1..Len(uids) |-> PolygonsOf(uids[i])]), 0)
       /\ \A k \in DOMAIN r.indices_ : r.indices_[k] < Len(r.vertices_)
       /\ \A j \in DOMAIN uids :
            \A k \in (OwnStart(uids, uids[j]) + 1)
                       ..(OwnStart(uids, uids[j]) + IndexCount(uids[j])) :
              /\ r.indices_[k] >= OwnVertexStart(uids, uids[j])
              /\ r.indices_[k] < OwnVertexStart(uids, uids[j]) + VertexCount(uids[j])
              /\ <<r.vertices_[r.indices_[k] + 1].x, r.vertices_[r.indices_[k] + 1].y>>
                   \in AllCoords(FeatureByUid(uids[j]))

\* two features with triangles share the replay, one of them a
\* multi-polygon added after the other feature
C27_Witness ==
  /\ "Polygon" \in DOMAIN group.replays_
  /\ Len(AddedOf("Polygon")) = 2
  /\ AddedOf("Polygon")[2] = MPoly.uid
  /\ IndexCount(AddedOf("Polygon")[1]) > 0
  /\ Len(group.replays_["Polygon"].indices_)
       = IndexCount(AddedOf("Polygon")[1]) + 6

(***************************************************************************)
(* Properties of SpecDraw.                                                 *)
(***************************************************************************)
\* the feature of the draw call the step made
Drawn(l) == FeatureByUid(l.calls[Len(l.calls)].f)

\* a bulk replay with no feature skipped that ran to its end
BulkReplayed(l) ==
  l.op = "replay" /\ l.P.mode = "bulk" /\ l.P.skipped = {} /\ ~l.threw

DrawArraysCalls(calls) ==
  LET isDraw(c) == c.op = "drawArrays" IN SelectSeq(calls, isDraw)

\* the point coordinates of a point or multi-point
PointCoordinates(f) == IF f.type = "Point" THEN <<f.coords>> ELSE f.coords

\* C28: every drawPoint and drawMultiPoint call made with a fill colour
\* available (the feature's own style or the replay's fill colour) appends
\* exactly one vertex record per point coordinate of the geometry, and a
\* bulk replay of the Point replay draws exactly one point primitive per
\* stored vertex: one drawArrays(POINTS) whose count is the number of
\* vertices in the buffer.
C28_OnePointPerVertex ==
  [][/\ (/\ last'.op \in {"drawPoint", "drawMultiPoint"}
          /\ (~Drawn(last').ownFill.isNull
                \/ group.replays_["Point"].fillColor_ # NullColor)) =>
         LET old == group.replays_["Point"].vertexAttributes_
             new == group'.replays_["Point"].vertexAttributes_
             pts == PointCoordinates(Drawn(last'))
         IN /\ Len(new) = Len(old) + Len(pts)
            /\ SubSeq(new, 1, Len(old)) = old
            /\ \A i \in DOMAIN pts :
                 <<new[Len(old) + i].x, new[Len(old) + i].y>> = pts[i]
     /\ (BulkReplayed(last') /\ "Point" \in DOMAIN group'.replays_) =>
         DrawArraysCalls(last'.calls)
           = <<Call("drawArrays", "POINTS", 0,
                    Len(group'.replays_["Point"].vertexAttributes_), 0)>>
    ]_vars

\* the vertex records new are the pairs of the segments of the path, in the
\* colour: 2 * (n - 1) records, pair i holding coordinates i and i + 1
SegmentPairs(new, coordinates, colour) ==
  /\ Len(new) = 2 * (Len(coordinates) - 1)
  /\ \A i \in 1..(Len(coordinates) - 1) :
       /\ new[2 * i - 1] = [x |-> coordinates[i][1], y |-> coordinates[i][2],
                            c |-> colour]
       /\ new[2 * i] = [x |-> coordinates[i + 1][1], y |-> coordinates[i + 1][2],
                        c |-> colour]

\* C29: adding a path of n >= 1 coordinates to a LineString replay, or a
\* ring to the LineString replay nested in a Polygon replay, appends exactly
\* 2 * (n - 1) vertex records, the pair of segment i holding coordinates i
\* and i + 1 in the replay's current stroke colour; a bulk replay of a
\* LineString replay issues one draw of lines over all its vertices,
\* between setting the line width to 3 and back to 1.
C29_TwoVerticesPerSegment ==
  [][/\ (/\ last'.op = "drawLineString"
         /\ Len(Drawn(last').coords) >= 1
         /\ group.replays_["LineString"].strokeColor_ # NullColor) =>
         LET old == group.replays_["LineString"].vertices_
             new == group'.replays_["LineString"].vertices_
         IN /\ SubSeq(new, 1, Len(old)) = old
            /\ SegmentPairs(SubSeq(new, Len(old) + 1, Len(new)),
                            Drawn(last').coords,
                            group.replays_["LineString"].strokeColor_)
     /\ (/\ last'.op = "drawPolygon"
         /\ group.replays_["Polygon"].hasLineStringReplayColor_) =>
         LET lr == group.replays_["Polygon"].lineStringReplay_
             old == lr.vertices_
             new == group'.replays_["Polygon"].lineStringReplay_.vertices_
         IN /\ Len(Drawn(last').coords) = 1
            /\ SubSeq(new, 1, Len(old)) = old
            /\ SegmentPairs(SubSeq(new, Len(old) + 1, Len(new)),
                            Drawn(last').coords[1], lr.strokeColor_)
            /\ lr.strokeColor_ # NullColor
     /\ (BulkReplayed(last') /\ "LineString" \in DOMAIN group'.replays_) =>
         LET isGl(c) == c.op \in {"drawArrays", "lineWidth"} IN
         SelectSeq(last'.calls, isGl)
           = <<Call("lineWidth", "", 3, 0, 0),
               Call("drawArrays", "LINES", 0,
                    Len(group'.replays_["LineString"].vertices_), 0),
               Call("lineWidth", "", 1, 0, 0)>>
    ]_vars

\* the path of one coordinate and the path of three were added, which left
\* four vertices, and the replay was drawn
C29_Witness ==
  /\ BulkReplayed(last)
  /\ "LineString" \in DOMAIN group.replays_
  /\ Range(added) = {Line1.uid, Line3.uid}
  /\ Len(group.replays_["LineString"].vertices_) = 4

\* a call of setFillStrokeStyle that ran supplied a stroke style
StrokeSupplied(log) ==
  \E i \in DOMAIN log : log[i].op = "setFillStrokeStyle" /\ log[i].b = 1

\* C30: drawPolygon with no fill colour in effect (the feature has no style
\* of its own and the replay's fill colour is null) appends no vertex, no
\* index and no feature range to the polygon body; it appends the polygon's
\* rings to the nested LineString replay if and only if some earlier
\* setFillStrokeStyle call on this replay supplied a stroke style, whether
\* or not the most recent call did.
C30_OutlineOnceStrokeWasSet ==
  [][(/\ last'.op = "drawPolygon"
      /\ Drawn(last').ownFill.isNull
      /\ group.replays_["Polygon"].fillColor_ = NullColor) =>
       LET r == group.replays_["Polygon"]
           r1 == group'.replays_["Polygon"]
       IN /\ r1.vertices_ = r.vertices_
          /\ r1.indices_ = r.indices_
          /\ r1.startIndices_ = r.startIndices_
          /\ r1.endIndices_ = r.endIndices_
          /\ r1.features_ = r.features_
          /\ IF StrokeSupplied(last.calls)
             THEN \E new \in {SubSeq(r1.lineStringReplay_.vertices_,
                                     Len(r.lineStringReplay_.vertices_) + 1,
                                     Len(r1.lineStringReplay_.vertices_))} :
                    /\ new # <<>>
                    /\ {<<new[i].x, new[i].y>> : i \in DOMAIN new}
                         = Range(Drawn(last').coords[1])
             ELSE r1.lineStringReplay_.vertices_ = r.lineStringReplay_.vertices_
    ]_vars

\* a polygon was drawn with no fill colour in effect after a call that
\* supplied a stroke style and a later one that supplied none: the body is
\* empty and the nested LineString replay holds the ring
C30_Witness ==
  /\ last.op = "drawPolygon"
  /\ "Polygon" \in DOMAIN group.replays_
  /\ group.replays_["Polygon"].fillColor_ = NullColor
  /\ group.replays_["Polygon"].features_ = <<>>
  /\ group.replays_["Polygon"].vertices_ = <<>>
  /\ group.replays_["Polygon"].lineStringReplay_.vertices_ # <<>>
  /\ LET calls == StyleCalls(last.calls)
     IN Len(calls) = 2 /\ calls[1].b = 1 /\ calls[2].b = 0

\* the colours of the vertex records a replay holds
VertexColours(k, r) ==
  CASE k = "Point" -> {r.vertexAttributes_[i].c : i \in DOMAIN r.vertexAttributes_}
    [] k = "LineString" -> {r.vertices_[i].c : i \in DOMAIN r.vertices_}
    [] k = "Polygon" ->
         {r.vertices_[i].c : i \in DOMAIN r.vertices_}
           \cup {r.lineStringReplay_.vertices_[i].c :
                    i \in DOMAIN r.lineStringReplay_.vertices_}

\* the fractions are the same number
SameFraction(p, q) == p[1] * q[2] = q[1] * p[2]

\* the colours given to SpecDraw by styles
InputColours == {Red, Blue, Olive}

PositionsAfter(vertices, n) ==
  {<<vertices[i].x, vertices[i].y>> : i \in (n + 1)..Len(vertices)}

\* the positions new are the coordinates of the feature in the frame of the
\* origin
InLocalFrame(new, f, origin) ==
  new # {} => new = {<<p[1] - origin[1], p[2] - origin[2]>> : p \in AllCoords(f)}

\* C32: every vertex position a replay stores is in the local frame: the
\* positions a draw call appends are the coordinates of the geometry minus
\* the replay's origin, the centre of the extent it was created with.
C32_PositionsInLocalFrame ==
  [][last'.op \in {"drawPoint", "drawMultiPoint", "drawLineString",
                    "drawPolygon", "drawMultiPolygon"} =>
       \A k \in DOMAIN group.replays_ :
         \E r \in {group.replays_[k]}, r1 \in {group'.replays_[k]} :
           CASE k = "Point" ->
                  InLocalFrame(PositionsAfter(r1.vertexAttributes_,
                                              Len(r.vertexAttributes_)),
                               Drawn(last'), r.origin_)
             [] k = "LineString" ->
                  InLocalFrame(PositionsAfter(r1.vertices_, Len(r.vertices_)),
                               Drawn(last'), r.origin_)
             [] k = "Polygon" ->
                  /\ InLocalFrame(PositionsAfter(r1.vertices_, Len(r.vertices_)),
                                  Drawn(last'), r.origin_)
                  /\ InLocalFrame(PositionsAfter(r1.lineStringReplay_.vertices_,
                                                 Len(r.lineStringReplay_.vertices_)),
                                  Drawn(last'), r.lineStringReplay_.origin_)
    ]_vars

\* ---------------------------------------------------------------------------
\* SpecThrottle: the tile renderer of a layer whose styles have images.  A
\* prepare pass that built a tile while an image was still loading leaves
\* dirty_ set; the view hints and the layer's update settings take every
\* combination.
\* ---------------------------------------------------------------------------

\* every combination of the view hints and the update settings of the layer
AllHints ==
  {Hints(a, i, ua, ui) : a \in BOOLEAN, i \in BOOLEAN, ua \in BOOLEAN, ui \in BOOLEAN}

NextThrottle ==
  \/ \E h \in AllHints : PrepareFrameThrottled(h)
  \/ \E e \in FrameExtents, le \in LayerExtents : PrepareFrameNotInView(e, le)
  \/ \E e \in FrameExtents, le \in LayerExtents, res \in ViewResolutions,
        imageLoading \in BOOLEAN :
       PrepareFrameWith(e, le, res, FALSE, imageLoading)
  \/ \E managed \in BOOLEAN : ComposeFrame(managed, {})
  \/ \E t \in Tiles : StartLoad(t)
  \/ \E t \in Tiles, state \in TileStates : EndLoad(t, state)
  \/ LayerChanged

SpecThrottle == Init /\ [][NextThrottle]_vars

\* the pass that has just ended is prepareFrame leaving by one of its early
\* exits
EarlyExit(l) == l.op = "prepareFrame" /\ l.ret \in {"throttled", "false"}

\* C33: a renderer whose dirty_ flag is set is never throttled: prepareFrame
\* does not take the animating / interacting shortcut, whatever the view
\* hints and the update settings of the layer are.
C33_DirtyNeverThrottled ==
  [][dirty_ => ~(last'.op = "prepareFrame" /\ last'.ret = "throttled")]_vars

\* C34: an early exit of prepareFrame, by the shortcut or by the empty
\* extent, leaves renderedTiles_, dirty_ and the replayState of every tile
\* as they were, and the composeFrame that follows replays the tiles of that
\* list.
C34_EarlyExitKeepsState ==
  [][/\ EarlyExit(last') => UNCHANGED <<renderedTiles_, dirty_, replayState>>
     /\ EarlyExit(last) /\ last'.op = "composeFrame" =>
          IsPrefix(TileCalls(last'.calls), SelectSeq(renderedTiles_, Replayable))
    ]_vars

\* an early exit was taken by a renderer that has a tile list and whose
\* dirty_ flag is set
C34_Witness ==
  /\ EarlyExit(last)
  /\ renderedTiles_ # <<>>
  /\ dirty_

\* ---------------------------------------------------------------------------
\* Hit detection of a ReplayGroup (SpecReplay)
\* ---------------------------------------------------------------------------

\* the call that has just returned is a hit-detection pass over the group
HitDetectionReturned(l) == l.op \in {"forEach", "has"} /\ ~l.threw

\* C35: after a hit-detection replay returns, with or without a hit, the GL
\* state is restored: the blend function is the default one again and no
\* vertex attribute array is left enabled.
C35_GLStateRestored ==
  HitDetectionReturned(last) => gl.blend = "default" /\ gl.arrays = {}

\* the step from Polygon replay r to r1 keeps the stroke flag sound: a set
\* flag comes with a stroke colour of the nested replay, the flag is not
\* taken back, and rings are appended only under a stroke colour
StrokeFlagSound(r, r1) ==
  /\ r1.hasLineStringReplayColor_ => r1.lineStringReplay_.strokeColor_ # NullColor
  /\ r.hasLineStringReplayColor_ => r1.hasLineStringReplayColor_
  /\ Len(r1.lineStringReplay_.vertices_) > Len(r.lineStringReplay_.vertices_) =>
       r.lineStringReplay_.strokeColor_ # NullColor

\* C38: in every state of a Polygon replay a set hasLineStringReplayColor_
\* implies a non-null stroke colour of the nested LineString replay, the
\* flag never reverts to false, and no ring is appended to the nested
\* replay while its stroke colour is null.
C38_StrokeFlagImpliesColour ==
  []["Polygon" \in DOMAIN group.replays_ =>
       StrokeFlagSound(group.replays_["Polygon"], group'.replays_["Polygon"])]_vars

\* a ring was appended to the nested replay after a later setFillStrokeStyle
\* call without a stroke
C38_Witness ==
  /\ "Polygon" \in DOMAIN group.replays_
  /\ last.op = "drawPolygon"
  /\ group.replays_["Polygon"].lineStringReplay_.vertices_ # <<>>
  /\ \E i \in DOMAIN last.calls :
       /\ last.calls[i].op = "setFillStrokeStyle" /\ last.calls[i].b = 0
       /\ \E j \in 1..(i - 1) :
            last.calls[j].op = "setFillStrokeStyle" /\ last.calls[j].b = 1

\* C37: finish completes without an error on a group whose Polygon replay
\* has no fill geometry (an empty index list), as after a batch styled with
\* a stroke only.
C37_FinishOfStrokeOnlyBatch ==
  /\ last.op = "finish"
  /\ "Polygon" \in DOMAIN group.replays_
  /\ group.replays_["Polygon"].indices_ = <<>>
  => ~last.threw

\* ---------------------------------------------------------------------------
\* SpecHit: one ReplayGroup without a render buffer, filled with features of
\* several colours, finished and probed through both hit-detection entry
\* points.
\* ---------------------------------------------------------------------------
InitHit ==
  /\ ctx \in Contexts
  /\ gl = InitGL
  /\ group = NewReplayGroup(<<>>)
  /\ added = <<>>
  /\ last = Did("new", NoParams, <<>>, 0, FALSE, FALSE, FALSE)
  /\ InitRenderer

NextHit ==
  \/ \E f \in HitCatalog : Add(f)
  \/ Finish
  \/ \E c \in Coordinates, skipped \in SkippedSets : ForEach(c, skipped, HitUids)
  \/ \E c \in Coordinates, skipped \in SkippedSets : Has(c, skipped)

SpecHit == InitHit /\ [][NextHit]_vars

\* hasFeatureAtCoordinate returns true for the probe P of group g
HasReports(g, P) ==
  \E o \in {HasFeatureAtCoordinate(g, gl, ctx, P.coordinate, P.skipped)} :
    ~o.threw /\ o.result # 0

\* forEachFeatureAtCoordinate with a callback that is always truthy returns
\* a result for the probe P of group g
ForEachReports(g, P) ==
  \E o \in {ForEachFeatureAtCoordinate(g, gl, ctx, P.coordinate, P.skipped, HitUids)} :
    ~o.threw /\ o.result # 0

\* C36: the two hit-detection entry points agree on every finished group,
\* coordinate and excluded set: hasFeatureAtCoordinate returns true exactly
\* when forEachFeatureAtCoordinate with a callback that is always truthy
\* returns a result, whatever the colours of the features are.
C36_EntryPointsAgree ==
  /\ last.op = "has" /\ ~last.threw =>
       (last.result # 0 <=> ForEachReports(group, last.P))
  /\ last.op = "forEach" /\ ~last.threw =>
       (last.result # 0 <=> HasReports(group, last.P))

(***************************************************************************)
(* SpecLayer: the min and max properties of an ol.layer.Base.  setMin and  *)
(* setMax call each other; a call is a frame [fn, arg, pc] on the stack,   *)
(* pc "test" before its if statement and "set" before its this.set(...).   *)
(* A call that would make the stack deeper than StackLimit ends all calls  *)
(* in progress with a RangeError, as the JavaScript engine does when the   *)
(* call stack is exhausted.                                                *)
(***************************************************************************)
\* min and max take the values 0..MaxValue
MaxValue == 3
LayerValues == 0..MaxValue
\* the number of nested calls the call stack has room for
StackLimit == 4

NewFrame(fn, arg) == [fn |-> fn, arg |-> arg, pc |-> "test"]

\* the constructor: options.min and options.max as given, no check of their
\* order
NewLayer(optionsMin, optionsMax) == [min |-> optionsMin, max |-> optionsMax]

\* what the last call from outside was given, the properties it found and
\* how it ended
LayerCall(op, arg, l, ret) ==
  [op |-> op, arg |-> arg, min0 |-> l.min, max0 |-> l.max, ret |-> ret]

InitLayer ==
  /\ layer \in {NewLayer(a, b) : a \in LayerValues, b \in LayerValues}
  /\ stack = <<>>
  /\ last = LayerCall("new", 0, layer, "returned")
  /\ ctx = [hasOES |-> FALSE, asserts |-> FALSE]
  /\ gl = InitGL
  /\ group = NullGroup
  /\ added = <<>>
  /\ tileState = <<>>
  /\ replayState = <<>>
  /\ renderedTiles_ = <<>>
  /\ dirty_ = FALSE
  /\ revision = 0
  /\ renderOrder = "null"

\* a call of setMin(v) or setMax(v) from outside the layer
CallSetter(fn, v) ==
  /\ stack = <<>>
  /\ stack' = <<NewFrame(fn, v)>>
  /\ last' = LayerCall(fn, v, layer, "running")
  /\ UNCHANGED <<layer, ctx, gl, group, added>>
  /\ UNCHANGED rendererVars

\* setMin's test that never finds the maximum crossed
SetMinCrossesNever(l, min) == FALSE

\* the test of setMin: min > this.getMax()
SetMinCrosses(l, min) == min > l.max

\* the test of setMax: max < this.getMin()
SetMaxCrosses(l, max) == max < l.min

\* the frame on top of the stack and the stack below it
Top == stack[Len(stack)]
Below == SubSeq(stack, 1, Len(stack) - 1)

\* the if statement of the call on top of the stack: the call of the other
\* setter when crosses holds
TestStep(crosses, other) ==
  /\ Top.pc = "test"
  /\ IF crosses
     THEN IF Len(stack) < StackLimit
          THEN /\ stack' = Append(Below, [Top EXCEPT !.pc = "set"])
                             \o <<NewFrame(other, Top.arg)>>
               /\ last' = last
          ELSE /\ stack' = <<>>
               /\ last' = [last EXCEPT !.ret = "RangeError"]
     ELSE /\ stack' = Append(Below, [Top EXCEPT !.pc = "set"])
          /\ last' = last
  /\ layer' = layer

\* this.set(property, value) of the call on top of the stack, and its return
SetStep(l) ==
  /\ Top.pc = "set"
  /\ layer' = l
  /\ stack' = Below
  /\ last' = IF Len(stack) = 1 THEN [last EXCEPT !.ret = "returned"] ELSE last

\* one step of the setMin call on top of the stack
SetMin ==
  /\ stack # <<>>
  /\ Top.fn = "setMin"
  /\ \/ TestStep(SetMinCrosses(layer, Top.arg), "setMax")
     \/ SetStep([layer EXCEPT !.min = Top.arg])
  /\ UNCHANGED <<ctx, gl, group, added>>
  /\ UNCHANGED rendererVars

\* one step of the setMax call on top of the stack
SetMax ==
  /\ stack # <<>>
  /\ Top.fn = "setMax"
  /\ \/ TestStep(SetMaxCrosses(layer, Top.arg), "setMin")
     \/ SetStep([layer EXCEPT !.max = Top.arg])
  /\ UNCHANGED <<ctx, gl, group, added>>
  /\ UNCHANGED rendererVars

NextLayer ==
  \/ \E fn \in {"setMin", "setMax"}, v \in LayerValues : CallSetter(fn, v)
  \/ SetMin
  \/ SetMax

SpecLayer == InitLayer /\ [][NextLayer]_vars

\* a call in progress keeps running: JavaScript runs it to completion
SpecLayerFair == SpecLayer /\ WF_vars(SetMin) /\ WF_vars(SetMax)

\* the call from outside has returned
Returned(op) == stack = <<>> /\ last.op = op /\ last.ret = "returned"

\* C39: from a layer with min <= max the setters keep getMin() <= getMax();
\* after setMin(v) getMin() is v and after setMax(v) getMax() is v, and the
\* other bound has moved, to v, only if it would have been crossed.
C39_MinNeverAboveMax ==
  last.min0 <= last.max0 =>
    /\ layer.min <= layer.max
    /\ Returned("setMin") =>
         /\ layer.min = last.arg
         /\ layer.max = IF last.arg > last.max0 THEN last.arg ELSE last.max0
    /\ Returned("setMax") =>
         /\ layer.max = last.arg
         /\ layer.min = IF last.arg < last.min0 THEN last.arg ELSE last.min0

\* setMin has returned after moving the maximum up with the minimum
C39_Witness ==
  /\ Returned("setMin")
  /\ last.min0 <= last.max0
  /\ last.arg > last.max0
  /\ layer.max = last.arg

\* C40: setMin(v) and setMax(v) terminate for every layer and every v, a
\* layer constructed with min > max included: every call ends, and none by
\* exhausting the call stack.
C40_SettersTerminate ==
  /\ [](last.ret # "RangeError")
  /\ (stack # <<>>) ~> (stack = <<>>)

====
